---- MODULE Spec2Model ----
(***************************************************************************)
(* Model of the survey dashboard of src/app.py: the column classifier, the *)
(* value canonicalisation, the group key, the per-question distribution    *)
(* (compute_results), the cross-group ranking (compute_likert_compare) and *)
(* the module-level cache that the request handlers read, and of the       *)
(* static export of src/build_data.py.  Spec runs the handlers one after   *)
(* the other; SpecThreads runs two of them in the threads of the server,   *)
(* one read or assignment of a global at a time; SpecCache runs the cache  *)
(* functions over a clock and a source that changes or fails; SpecBuild    *)
(* runs build_data.py beside the server on the same file.                  *)
(*                                                                         *)
(* A Python str is a sequence of characters.  A character is a TLA+ string *)
(* of one character; the non-ASCII ones are named: "nbsp" U+00A0,          *)
(* "inv_q" U+00BF, "E_acute" U+00C9, "I_acute" U+00CD, "e_acute" U+00E9,   *)
(* "i_acute" U+00ED, "endash" U+2013, "emdash" U+2014.  A missing cell     *)
(* (None/NaN) is NaN.                                                      *)
(* Percentages are held in tenths (33.3 is 333), the unit round(x, 1)      *)
(* produces.                                                               *)
(***************************************************************************)
EXTENDS Integers, Sequences, FiniteSets, TLC

VARIABLES
    source,             \* the table behind the data source, or Unavailable
    _df,                \* cached canonical table, or None
    _likert5_cols,      \* cached list of Likert5 column names, or None
    _yesno_cols,        \* cached list of YesNo column names, or None
    _all_question_cols, \* cached question order, or None
    _plantel_names,     \* cached sorted group names, or None
    _loaded_at_epoch,   \* time of the cached load, or None
    _loaded_source,     \* "excel", "endpoint" or "unknown"
    now,                \* time.time()
    DATA_CACHE_TTL_SECONDS, \* the cache lifetime read from the environment at import
    response,           \* the last exchange: the route, its id parameter, the status and body returned
    threads             \* the request each server thread is handling, and where it is in it

vars == <<source, _df, _likert5_cols, _yesno_cols, _all_question_cols,
          _plantel_names, _loaded_at_epoch, _loaded_source, now, DATA_CACHE_TTL_SECONDS,
          response, threads>>

\* ---------------------------------------------------------------- text

\* a missing cell of a table (None or NaN)
NaN == <<"NaN">>

\* The characters of the model in code-point order.
CharOrder ==
    <<" ", "+", "-", "0", "1", "2", "3", "4", "5", "6", "7", "8", "9", "?",
      "A", "B", "C", "D", "E", "F", "G", "H", "I", "J", "K", "L", "M",
      "N", "O", "P", "Q", "R", "S", "T", "U", "V", "W", "X", "Y", "Z",
      "a", "b", "c", "d", "e", "f", "g", "h", "i", "j", "k", "l", "m",
      "n", "o", "p", "q", "r", "s", "t", "u", "v", "w", "x", "y", "z",
      "nbsp", "inv_q", "E_acute", "I_acute", "e_acute", "i_acute", "endash", "emdash">>

ord == [c \in {CharOrder[i] : i \in DOMAIN CharOrder} |->
            CHOOSE i \in DOMAIN CharOrder : CharOrder[i] = c]

UpperChars ==
    <<"A", "B", "C", "D", "E", "F", "G", "H", "I", "J", "K", "L", "M",
      "N", "O", "P", "Q", "R", "S", "T", "U", "V", "W", "X", "Y", "Z", "E_acute", "I_acute">>

LowerChars ==
    <<"a", "b", "c", "d", "e", "f", "g", "h", "i", "j", "k", "l", "m",
      "n", "o", "p", "q", "r", "s", "t", "u", "v", "w", "x", "y", "z", "e_acute", "i_acute">>

\* the lower-case form of every character
to_lower ==
    [c \in {CharOrder[i] : i \in DOMAIN CharOrder} |->
        IF \E k \in DOMAIN UpperChars : UpperChars[k] = c
        THEN LowerChars[CHOOSE k \in DOMAIN UpperChars : UpperChars[k] = c]
        ELSE c]

\* str.lower()
lower(s) == [i \in DOMAIN s |-> to_lower[s[i]]]

\* The whitespace str.strip() removes and the regex \s matches.
isspace(c) == c \in {" ", "nbsp"}

\* str.strip()
strip(s) ==
    LET keep == {i \in DOMAIN s : ~isspace(s[i])}
    IN  IF keep = {} THEN <<>>
        ELSE LET lo == CHOOSE i \in keep : \A j \in keep : i <= j
                 hi == CHOOSE i \in keep : \A j \in keep : j <= i
             IN  SubSeq(s, lo, hi)

\* str.replace(old, new) for one character
replace(s, old, new) == [i \in DOMAIN s |-> IF s[i] = old THEN new ELSE s[i]]

\* re.sub(r"\s+", " ", s): every run of whitespace becomes one space
RECURSIVE collapse_ws(_)
collapse_ws(s) ==
    IF s = <<>> THEN <<>>
    ELSE IF isspace(Head(s))
         THEN IF Len(s) > 1 /\ isspace(s[2])
              THEN collapse_ws(Tail(s))
              ELSE <<" ">> \o collapse_ws(Tail(s))
         ELSE <<Head(s)>> \o collapse_ws(Tail(s))

\* Series.astype(str) on one cell
astype_str(v) == IF v = NaN THEN <<"n","a","n">> ELSE v

\* kw in s
contains(s, kw) ==
    \E i \in 0..(Len(s) - Len(kw)) : SubSeq(s, i + 1, i + Len(kw)) = kw

\* s < t on Python strings (code-point lexicographic order)
RECURSIVE str_lt(_, _)
str_lt(s, t) ==
    IF t = <<>> THEN FALSE
    ELSE IF s = <<>> THEN TRUE
    ELSE IF Head(s) = Head(t) THEN str_lt(Tail(s), Tail(t))
    ELSE ord[Head(s)] < ord[Head(t)]

\* mutant: the strings in descending order
RECURSIVE sorted_descending(_)
sorted_descending(S) ==
    IF S = {} THEN <<>>
    ELSE LET m == CHOOSE x \in S : \A y \in S \ {x} : str_lt(y, x)
         IN  <<m>> \o sorted_descending(S \ {m})

\* sorted(S) for a set of strings
RECURSIVE sorted(_)
sorted(S) ==
    IF S = {} THEN <<>>
    ELSE LET m == CHOOSE x \in S : \A y \in S \ {x} : str_lt(x, y)
         IN  <<m>> \o sorted(S \ {m})

_clean_text_series(v) ==
    strip(collapse_ws(replace(replace(astype_str(v), "nbsp", " "), "emdash", "endash")))

\* _normalize_df_strings on one cell: a blank string becomes missing
_normalize_cell(x) == IF x # NaN /\ strip(x) = <<>> THEN NaN ELSE x

\* ------------------------------------------------------------ constants

Muy_satisfecho == <<"M","u","y"," ","s","a","t","i","s","f","e","c","h","o">>
Satisfecho == <<"S","a","t","i","s","f","e","c","h","o">>
Neutral == <<"N","e","u","t","r","a","l">>
Insatisfecho == <<"I","n","s","a","t","i","s","f","e","c","h","o">>
Muy_insatisfecho == <<"M","u","y"," ","i","n","s","a","t","i","s","f","e","c","h","o">>
Si == <<"S","i_acute">>
No == <<"N","o">>

LIKERT5_ORDER == <<Muy_satisfecho, Satisfecho, Neutral, Insatisfecho, Muy_insatisfecho>>
YESNO_ORDER == <<Si, No>>

likert_map ==
    (<<"m","u","y"," ","s","a","t","i","s","f","e","c","h","o">> :> Muy_satisfecho) @@
    (<<"s","a","t","i","s","f","e","c","h","o">> :> Satisfecho) @@
    (<<"n","e","u","t","r","a","l">> :> Neutral) @@
    (<<"i","n","s","a","t","i","s","f","e","c","h","o">> :> Insatisfecho) @@
    (<<"m","u","y"," ","i","n","s","a","t","i","s","f","e","c","h","o">> :> Muy_insatisfecho)

skip_keywords ==
    <<<<"m","a","r","c","a"," ","t","e","m","p","o","r","a","l">>,
      <<"n","o","m","b","r","e"," ","d","e","l"," ","a","l","u","m","n","o">>,
      <<"c","a","m","p","u","s">>,
      <<"n","i","v","e","l"," ","e","d","u","c","a","t","i","v","o">>,
      <<"g","r","a","d","o">>,
      <<"inv_q","p","o","r"," ","q","u","e_acute">>,
      <<"c","o","m","e","n","t","a","r","i","o","s">>,
      <<"s","u","g","e","r","e","n","c","i","a","s">>>>

likert_vocab ==
    {<<"m","u","y"," ","s","a","t","i","s","f","e","c","h","o">>,
     <<"s","a","t","i","s","f","e","c","h","o">>,
     <<"n","e","u","t","r","a","l">>,
     <<"i","n","s","a","t","i","s","f","e","c","h","o">>,
     <<"m","u","y"," ","i","n","s","a","t","i","s","f","e","c","h","o">>}

yesno_vocab == {<<"s","i_acute">>, <<"s","i">>, <<"n","o">>}

Nivel_Educativo == <<"N","i","v","e","l"," ","E","d","u","c","a","t","i","v","o">>
Campus == <<"C","a","m","p","u","s">>
plantel == <<"p","l","a","n","t","e","l">>
Plantel == <<"P","l","a","n","t","e","l">>

\* the most distinct non-null values a question column may have
MAX_DISTINCT == 10

\* the number of groups flagged foco rojo
K == 3

\* the default of DATA_CACHE_TTL_SECONDS, when the environment does not set it
DEFAULT_CACHE_TTL == 300

\* An Optional[T] global is a sequence: None is empty, a value x is <<x>>.
Some(x) == <<x>>
val(o) == o[1]

\* Python's "not x" for an Optional[list]: None or the empty list
falsy(o) == o = <<>> \/ val(o) = <<>>

\* os.environ DATA_ENDPOINT_URL, empty by default: the Excel file is the source
DATA_ENDPOINT_URL == <<>>

\* ---------------------------------------------------------------- tables

\* A DataFrame is [columns: sequence of names, rows: sequence of rows], a row
\* being the sequence of its cells in column order.

range(s) == {s[i] : i \in DOMAIN s}

\* c in df.columns
has_column(df, c) == c \in range(df.columns)

col_index(df, c) == CHOOSE k \in DOMAIN df.columns : df.columns[k] = c

\* df[c], in row order
column(df, c) == [r \in DOMAIN df.rows |-> df.rows[r][col_index(df, c)]]

\* df[c].dropna().unique(), as a set
dropna_unique(df, c) == range(column(df, c)) \ {NaN}

\* _normalize_df_strings
_normalize_df_strings(df) ==
    [columns |-> df.columns,
     rows |-> [r \in DOMAIN df.rows |->
                  [k \in DOMAIN df.rows[r] |-> _normalize_cell(df.rows[r][k])]]]

\* ---------------------------------------------------- classify_and_prepare

\* mutant: the keywords are searched in the name as written
is_skipped_as_written(c) ==
    \/ c = <<"N","o","n","e">>
    \/ \E i \in DOMAIN skip_keywords : contains(c, skip_keywords[i])

\* the name tests of the first loop
is_skipped(c) ==
    \/ c = <<"N","o","n","e">>
    \/ \E i \in DOMAIN skip_keywords : contains(lower(c), skip_keywords[i])

\* mutant: the distinct values are counted after trimming and lower-casing
is_question_col_norm(df, c) ==
    ~is_skipped(c)
    /\ Cardinality({lower(strip(v)) : v \in dropna_unique(df, c)}) <= MAX_DISTINCT

\* the first loop: not skipped by name, at most 10 distinct non-null values
is_question_col(df, c) ==
    ~is_skipped(c) /\ Cardinality(dropna_unique(df, c)) <= MAX_DISTINCT

question_cols(df) == SelectSeq(df.columns, LAMBDA c : is_question_col(df, c))

\* set(str(v).strip().lower() for v in df[c].dropna().unique())
norm_vals(df, c) == {lower(strip(v)) : v \in dropna_unique(df, c)}

\* mutant: a column without values is not Likert5
is_likert5_nonempty(df, c) ==
    norm_vals(df, c) # {} /\ norm_vals(df, c) \subseteq likert_vocab

is_likert5(df, c) == norm_vals(df, c) \subseteq likert_vocab

\* the elif branch
is_yesno(df, c) == ~is_likert5(df, c) /\ norm_vals(df, c) \subseteq yesno_vocab

likert5_cols_of(df) == SelectSeq(question_cols(df), LAMBDA c : is_likert5(df, c))

yesno_cols_of(df) == SelectSeq(question_cols(df), LAMBDA c : is_yesno(df, c))

\* likert_map.get(str(x).strip().lower(), x) if pd.notna(x) else x
canon_likert(x) ==
    IF x # NaN
    THEN IF lower(strip(x)) \in DOMAIN likert_map THEN likert_map[lower(strip(x))] ELSE x
    ELSE x

\* mutant: the cells of a YesNo column are left as given
canon_yesno_as_given(x) == x

\* the lambda of the YesNo branch
canon_yesno(x) ==
    IF x # NaN
    THEN IF lower(strip(x)) \in {<<"s","i_acute">>, <<"s","i">>} THEN Si
         ELSE IF lower(strip(x)) = <<"n","o">> THEN No ELSE x
    ELSE x

\* mutant: the Likert map is applied to the cells of every column
canon_cell_any_column(likert5_cols, yesno_cols, c, x) ==
    IF c \in range(yesno_cols) THEN canon_yesno(x) ELSE canon_likert(x)

\* the cell x of column c after the second loop
canon_cell(likert5_cols, yesno_cols, c, x) ==
    IF c \in range(likert5_cols) THEN canon_likert(x)
    ELSE IF c \in range(yesno_cols) THEN canon_yesno(x)
    ELSE x

\* mutant: a row without level or site has no group key
plantel_of_missing(df, row) ==
    IF has_column(df, Nivel_Educativo) /\ has_column(df, Campus)
    THEN IF row[col_index(df, Nivel_Educativo)] = NaN \/ row[col_index(df, Campus)] = NaN
         THEN NaN
         ELSE _clean_text_series(
                  _clean_text_series(row[col_index(df, Nivel_Educativo)])
                  \o <<" ","endash"," ">> \o
                  _clean_text_series(row[col_index(df, Campus)]))
    ELSE _clean_text_series(Plantel)

\* mutant: the two fields are joined by a hyphen
plantel_of_hyphen(df, row) ==
    IF has_column(df, Nivel_Educativo) /\ has_column(df, Campus)
    THEN _clean_text_series(
             _clean_text_series(row[col_index(df, Nivel_Educativo)])
             \o <<" ","-"," ">> \o
             _clean_text_series(row[col_index(df, Campus)]))
    ELSE _clean_text_series(Plantel)

\* the group key of one row
plantel_of(df, row) ==
    IF has_column(df, Nivel_Educativo) /\ has_column(df, Campus)
    THEN _clean_text_series(
             _clean_text_series(row[col_index(df, Nivel_Educativo)])
             \o <<" ","endash"," ">> \o
             _clean_text_series(row[col_index(df, Campus)]))
    ELSE _clean_text_series(Plantel)

classify_and_prepare(df) ==
    LET likert5_cols == likert5_cols_of(df)
        yesno_cols == yesno_cols_of(df)
    IN  [df |->
            [columns |-> df.columns \o <<plantel>>,
             rows |-> [r \in DOMAIN df.rows |->
                          [k \in DOMAIN df.columns |->
                              canon_cell(likert5_cols, yesno_cols,
                                         df.columns[k], df.rows[r][k])]
                          \o <<plantel_of(df, df.rows[r])>>]],
         likert5_cols |-> likert5_cols,
         yesno_cols |-> yesno_cols]

\* The data source: a table, or Unavailable (dataset.xlsx not found, or the
\* endpoint failing), in which case load_data raises.
Unavailable == [columns |-> <<>>, rows |-> <<>>, missing |-> TRUE]

load_raises(src) == "missing" \in DOMAIN src

load_data(src) ==
    LET r == classify_and_prepare(_normalize_df_strings(src))
    IN  [df |-> r.df, likert5_cols |-> r.likert5_cols, yesno_cols |-> r.yesno_cols,
         source_label |-> IF DATA_ENDPOINT_URL # <<>> THEN "endpoint" ELSE "excel"]

\* ------------------------------------------------------------------ cache

\* The module globals as one record.
globals ==
    [_df |-> _df, _likert5_cols |-> _likert5_cols, _yesno_cols |-> _yesno_cols,
     _all_question_cols |-> _all_question_cols, _plantel_names |-> _plantel_names,
     _loaded_at_epoch |-> _loaded_at_epoch, _loaded_source |-> _loaded_source]

set_globals(g) ==
    /\ _df' = g._df
    /\ _likert5_cols' = g._likert5_cols
    /\ _yesno_cols' = g._yesno_cols
    /\ _all_question_cols' = g._all_question_cols
    /\ _plantel_names' = g._plantel_names
    /\ _loaded_at_epoch' = g._loaded_at_epoch
    /\ _loaded_source' = g._loaded_source

\* mutant: clear_cache leaves the group list
clear_cache_keeps_names ==
    [_df |-> <<>>, _likert5_cols |-> <<>>, _yesno_cols |-> <<>>,
     _all_question_cols |-> <<>>, _plantel_names |-> _plantel_names,
     _loaded_at_epoch |-> <<>>, _loaded_source |-> "unknown"]

clear_cache ==
    [_df |-> <<>>, _likert5_cols |-> <<>>, _yesno_cols |-> <<>>,
     _all_question_cols |-> <<>>, _plantel_names |-> <<>>,
     _loaded_at_epoch |-> <<>>, _loaded_source |-> "unknown"]

\* mutant: a snapshot whose age equals the lifetime is still fresh
cache_fresh_inclusive(g, force) ==
    /\ ~force /\ g._df # <<>> /\ g._loaded_at_epoch # <<>>
    /\ \/ DATA_CACHE_TTL_SECONDS <= 0
       \/ now - val(g._loaded_at_epoch) <= DATA_CACHE_TTL_SECONDS

\* whether ensure_loaded(force) returns early, keeping the cache g
cache_fresh(g, force) ==
    /\ ~force /\ g._df # <<>> /\ g._loaded_at_epoch # <<>>
    /\ \/ DATA_CACHE_TTL_SECONDS <= 0
       \/ now - val(g._loaded_at_epoch) < DATA_CACHE_TTL_SECONDS

\* mutant: the question order lists the YesNo columns first
loaded_globals_yesno_first(src) ==
    LET l == load_data(src)
    IN  [_df |-> Some(l.df),
         _likert5_cols |-> Some(l.likert5_cols),
         _yesno_cols |-> Some(l.yesno_cols),
         _all_question_cols |-> Some(l.yesno_cols \o l.likert5_cols),
         _plantel_names |->
             Some(IF has_column(l.df, plantel)
                  THEN sorted(dropna_unique(l.df, plantel)) ELSE <<>>),
         _loaded_at_epoch |-> Some(now),
         _loaded_source |-> l.source_label]

\* the globals the load of ensure_loaded assigns
loaded_globals(src) ==
    LET l == load_data(src)
    IN  [_df |-> Some(l.df),
         _likert5_cols |-> Some(l.likert5_cols),
         _yesno_cols |-> Some(l.yesno_cols),
         _all_question_cols |-> Some(l.likert5_cols \o l.yesno_cols),
         _plantel_names |->
             Some(IF has_column(l.df, plantel)
                  THEN sorted(dropna_unique(l.df, plantel)) ELSE <<>>),
         _loaded_at_epoch |-> Some(now),
         _loaded_source |-> l.source_label]

\* mutant: a load that raises drops the cached snapshot
ensure_loaded_drops_on_error(g, force) ==
    IF cache_fresh(g, force) THEN [raised |-> FALSE, g |-> g, loads |-> 0]
    ELSE IF load_raises(source) THEN [raised |-> TRUE, g |-> clear_cache, loads |-> 1]
    ELSE [raised |-> FALSE, g |-> loaded_globals(source), loads |-> 1]

\* ensure_loaded(force) from the globals g: whether it raised, the globals
\* after it (unchanged when load_data raised) and the number of calls of
\* load_data it made
ensure_loaded(g, force) ==
    IF cache_fresh(g, force) THEN [raised |-> FALSE, g |-> g, loads |-> 0]
    ELSE IF load_raises(source) THEN [raised |-> TRUE, g |-> g, loads |-> 1]
    ELSE [raised |-> FALSE, g |-> loaded_globals(source), loads |-> 1]

\* ---------------------------------------------------------- compute_results

\* pd.DataFrame()
empty_df == [columns |-> <<>>, rows |-> <<>>]

\* df[df["plantel"] == p]
rows_of_plantel(df, p) ==
    [columns |-> df.columns,
     rows |-> SelectSeq(df.rows, LAMBDA row : row[col_index(df, plantel)] = p)]

\* sub_df[col].value_counts().get(label, 0)
value_count(df, col, label) ==
    Cardinality({r \in DOMAIN df.rows : df.rows[r][col_index(df, col)] = label})

\* mutant: the percentage is rounded to a whole percent
round_pct_whole(c, total) == 10 * ((200 * c + total) \div (2 * total))

\* mutant: the percentage is truncated to one decimal
round_pct_floor(c, total) == (1000 * c) \div total

\* round(c / total * 100, 1) in tenths, for total > 0: the nearest tenth, a tie
\* going to the even one (no tie arises with fewer than 16 rows)
round_pct(c, total) ==
    LET q == (1000 * c) \div total
        rem == (1000 * c) % total
    IN  IF 2 * rem < total THEN q
        ELSE IF 2 * rem > total THEN q + 1
        ELSE IF q % 2 = 0 THEN q ELSE q + 1

\* mutant: the labels of every entry are the Likert5 labels
question_entry_likert_order(g, sub_df, col) ==
    LET total == Len(sub_df.rows)
        is_likert5_col == col \in range(val(g._likert5_cols))
        order == LIKERT5_ORDER
    IN  [question |-> col,
         type |-> IF is_likert5_col THEN "likert5" ELSE "yesno",
         total |-> total,
         data |-> [j \in DOMAIN order |->
                      LET c == IF has_column(sub_df, col)
                               THEN value_count(sub_df, col, order[j]) ELSE 0
                      IN  [label |-> order[j],
                           count |-> c,
                           pct |-> IF total > 0 THEN round_pct(c, total) ELSE 0]]]

\* mutant: total is the number of answered cells of the column
question_entry_answered_total(g, sub_df, col) ==
    LET total == Cardinality({r \in DOMAIN sub_df.rows :
                                 sub_df.rows[r][col_index(sub_df, col)] # NaN})
        is_likert5_col == col \in range(val(g._likert5_cols))
        order == IF is_likert5_col THEN LIKERT5_ORDER ELSE YESNO_ORDER
    IN  [question |-> col,
         type |-> IF is_likert5_col THEN "likert5" ELSE "yesno",
         total |-> total,
         data |-> [j \in DOMAIN order |->
                      LET c == IF has_column(sub_df, col)
                               THEN value_count(sub_df, col, order[j]) ELSE 0
                      IN  [label |-> order[j],
                           count |-> c,
                           pct |-> IF total > 0 THEN round_pct(c, total) ELSE 0]]]

\* the entry of one question
question_entry(g, sub_df, col) ==
    LET total == Len(sub_df.rows)
        is_likert5_col == col \in range(val(g._likert5_cols))
        order == IF is_likert5_col THEN LIKERT5_ORDER ELSE YESNO_ORDER
    IN  [question |-> col,
         type |-> IF is_likert5_col THEN "likert5" ELSE "yesno",
         total |-> total,
         data |-> [j \in DOMAIN order |->
                      LET c == IF has_column(sub_df, col)
                               THEN value_count(sub_df, col, order[j]) ELSE 0
                      IN  [label |-> order[j],
                           count |-> c,
                           pct |-> IF total > 0 THEN round_pct(c, total) ELSE 0]]]

\* the guard that returns [] before the loop
results_guard(g) ==
    falsy(g._all_question_cols) \/ falsy(g._likert5_cols) \/ falsy(g._yesno_cols)

compute_results(g, sub_df) ==
    IF results_guard(g) THEN <<>>
    ELSE [i \in DOMAIN val(g._all_question_cols) |->
             question_entry(g, sub_df, val(g._all_question_cols)[i])]

\* df[col] raises KeyError when df has no column col
getitem_raises(df, col) == ~has_column(df, col)

\* c / total raises ZeroDivisionError when total is 0
division_raises(total) == total = 0

\* mutant: the percentage is divided without the test total > 0
compute_results_raises_unguarded(g, sub_df) ==
    /\ ~results_guard(g)
    /\ \E i \in DOMAIN val(g._all_question_cols) :
          \/ /\ has_column(sub_df, val(g._all_question_cols)[i])
             /\ getitem_raises(sub_df, val(g._all_question_cols)[i])
          \/ division_raises(Len(sub_df.rows))

\* whether compute_results(sub_df) raises: past the guard, for a question it
\* reads sub_df[col] if col is a column of sub_df, and divides by total if
\* total > 0
compute_results_raises(g, sub_df) ==
    /\ ~results_guard(g)
    /\ \E i \in DOMAIN val(g._all_question_cols) :
          \/ /\ has_column(sub_df, val(g._all_question_cols)[i])
             /\ getitem_raises(sub_df, val(g._all_question_cols)[i])
          \/ /\ Len(sub_df.rows) > 0
             /\ division_raises(Len(sub_df.rows))

\* ----------------------------------------------------- compute_likert_compare

\* mutant: the answers of the first Likert5 column only
likert_count_first_column(sub, cols, k) ==
    Cardinality({r \in DOMAIN sub.rows : sub.rows[r][col_index(sub, cols[1])] = k})

\* pd.Series(sub[cols].to_numpy().ravel()).dropna().value_counts().get(k, 0)
likert_count(sub, cols, k) ==
    Cardinality({<<r, i>> \in (DOMAIN sub.rows) \X (DOMAIN cols) :
                    sub.rows[r][col_index(sub, cols[i])] = k})

RECURSIVE sum_seq(_)
sum_seq(s) == IF s = <<>> THEN 0 ELSE Head(s) + sum_seq(Tail(s))

\* mutant: the percentages are shares of the rows of the group
compare_row_per_respondent(g, df, p) ==
    LET sub == IF has_column(df, plantel) THEN rows_of_plantel(df, p) ELSE empty_df
        respondents == Len(sub.rows)
        cols_present == SelectSeq(val(g._likert5_cols), LAMBDA c : has_column(sub, c))
        counts_map == [k \in range(LIKERT5_ORDER) |->
                          IF respondents = 0 \/ cols_present = <<>> THEN 0
                          ELSE likert_count(sub, cols_present, k)]
        likert_answers == sum_seq([j \in DOMAIN LIKERT5_ORDER |-> counts_map[LIKERT5_ORDER[j]]])
        pct_map == [k \in range(LIKERT5_ORDER) |->
                       IF likert_answers > 0 THEN round_pct(counts_map[k], respondents)
                       ELSE 0]
    IN  [plantel |-> p,
         respondents |-> respondents,
         likert_answers |-> likert_answers,
         pct |-> pct_map,
         negative_pct |-> pct_map[Insatisfecho] + pct_map[Muy_insatisfecho],
         positive_pct |-> pct_map[Muy_satisfecho] + pct_map[Satisfecho]]

\* mutant: negative_pct and positive_pct are rounded from the summed counts
compare_row_sum_then_round(g, df, p) ==
    LET sub == IF has_column(df, plantel) THEN rows_of_plantel(df, p) ELSE empty_df
        respondents == Len(sub.rows)
        cols_present == SelectSeq(val(g._likert5_cols), LAMBDA c : has_column(sub, c))
        counts_map == [k \in range(LIKERT5_ORDER) |->
                          IF respondents = 0 \/ cols_present = <<>> THEN 0
                          ELSE likert_count(sub, cols_present, k)]
        likert_answers == sum_seq([j \in DOMAIN LIKERT5_ORDER |-> counts_map[LIKERT5_ORDER[j]]])
        pct_map == [k \in range(LIKERT5_ORDER) |->
                       IF likert_answers > 0 THEN round_pct(counts_map[k], likert_answers)
                       ELSE 0]
    IN  [plantel |-> p,
         respondents |-> respondents,
         likert_answers |-> likert_answers,
         pct |-> pct_map,
         negative_pct |->
             IF likert_answers > 0
             THEN round_pct(counts_map[Insatisfecho] + counts_map[Muy_insatisfecho],
                            likert_answers)
             ELSE 0,
         positive_pct |->
             IF likert_answers > 0
             THEN round_pct(counts_map[Muy_satisfecho] + counts_map[Satisfecho],
                            likert_answers)
             ELSE 0]

\* the row of one plantel, before the sort
compare_row(g, df, p) ==
    LET sub == IF has_column(df, plantel) THEN rows_of_plantel(df, p) ELSE empty_df
        respondents == Len(sub.rows)
        cols_present == SelectSeq(val(g._likert5_cols), LAMBDA c : has_column(sub, c))
        counts_map == [k \in range(LIKERT5_ORDER) |->
                          IF respondents = 0 \/ cols_present = <<>> THEN 0
                          ELSE likert_count(sub, cols_present, k)]
        likert_answers == sum_seq([j \in DOMAIN LIKERT5_ORDER |-> counts_map[LIKERT5_ORDER[j]]])
        pct_map == [k \in range(LIKERT5_ORDER) |->
                       IF likert_answers > 0 THEN round_pct(counts_map[k], likert_answers)
                       ELSE 0]
    IN  [plantel |-> p,
         respondents |-> respondents,
         likert_answers |-> likert_answers,
         pct |-> pct_map,
         negative_pct |-> pct_map[Insatisfecho] + pct_map[Muy_insatisfecho],
         positive_pct |-> pct_map[Muy_satisfecho] + pct_map[Satisfecho]]

\* the sort key (-negative_pct, -respondents, str(plantel)): a before b
key_lt(a, b) ==
    \/ a.negative_pct > b.negative_pct
    \/ /\ a.negative_pct = b.negative_pct
       /\ \/ a.respondents > b.respondents
          \/ a.respondents = b.respondents /\ str_lt(a.plantel, b.plantel)

RECURSIVE insert_row(_, _)
insert_row(s, r) ==
    IF s = <<>> THEN <<r>>
    ELSE IF key_lt(r, Head(s)) THEN <<r>> \o s
    ELSE <<Head(s)>> \o insert_row(Tail(s), r)

\* rows.sort(key=...): a stable sort
RECURSIVE sort_rows(_)
sort_rows(rows) ==
    IF rows = <<>> THEN <<>>
    ELSE insert_row(sort_rows(SubSeq(rows, 1, Len(rows) - 1)), rows[Len(rows)])

\* eligible = [i for i, r in enumerate(rows) if r["likert_answers"] > 0]
eligible(rows) ==
    SelectSeq([i \in DOMAIN rows |-> i], LAMBDA i : rows[i].likert_answers > 0)

\* mutant: the first K rows are flagged, with or without answers
foco_idx_any_row(rows) ==
    range(SubSeq([i \in DOMAIN rows |-> i], 1, IF Len(rows) < K THEN Len(rows) ELSE K))

\* mutant: the last K eligible rows are flagged
foco_idx_last(rows) ==
    LET e == eligible(rows)
    IN  range(SubSeq(e, IF Len(e) < K THEN 1 ELSE Len(e) - K + 1, Len(e)))

\* set(eligible[:K])
foco_idx(rows) ==
    LET e == eligible(rows)
    IN  range(SubSeq(e, 1, IF Len(e) < K THEN Len(e) ELSE K))

\* the payload built from the list rows
payload_of(rows) ==
    [planteles |-> [i \in DOMAIN rows |-> rows[i].plantel],
     respondents |-> [i \in DOMAIN rows |-> rows[i].respondents],
     likert_answers |-> [i \in DOMAIN rows |-> rows[i].likert_answers],
     pct_by_label |-> [k \in range(LIKERT5_ORDER) |-> [i \in DOMAIN rows |-> rows[i].pct[k]]],
     negative_pct |-> [i \in DOMAIN rows |-> rows[i].negative_pct],
     positive_pct |-> [i \in DOMAIN rows |-> rows[i].positive_pct],
     foco_red |-> [i \in DOMAIN rows |-> i \in foco_idx(rows)]]

\* mutant: without Likert5 column no group is listed
no_likert_payload_empty(g, df) == payload_of(<<>>)

\* the early return when no Likert5 column is classified: _plantel_names order
no_likert_payload(g, df) ==
    LET names == val(g._plantel_names)
    IN  [planteles |-> names,
         respondents |-> [i \in DOMAIN names |-> Len(rows_of_plantel(df, names[i]).rows)],
         likert_answers |-> [i \in DOMAIN names |-> 0],
         pct_by_label |-> [k \in range(LIKERT5_ORDER) |-> [i \in DOMAIN names |-> 0]],
         negative_pct |-> [i \in DOMAIN names |-> 0],
         positive_pct |-> [i \in DOMAIN names |-> 0],
         foco_red |-> [i \in DOMAIN names |-> FALSE]]

\* mutant: a call that follows a compare response lists the groups in the
\* opposite order
compute_likert_compare_by_call(g, df) ==
    IF falsy(g._plantel_names) THEN payload_of(<<>>)
    ELSE IF falsy(g._likert5_cols) THEN no_likert_payload(g, df)
    ELSE LET rows == sort_rows([i \in DOMAIN val(g._plantel_names) |->
                                   compare_row(g, df, val(g._plantel_names)[i])])
         IN  payload_of(IF response.route = "likert_compare"
                        THEN [i \in DOMAIN rows |-> rows[Len(rows) + 1 - i]]
                        ELSE rows)

compute_likert_compare(g, df) ==
    IF falsy(g._plantel_names) THEN payload_of(<<>>)
    ELSE IF falsy(g._likert5_cols) THEN no_likert_payload(g, df)
    ELSE payload_of(sort_rows([i \in DOMAIN val(g._plantel_names) |->
                                  compare_row(g, df, val(g._plantel_names)[i])]))

\* whether compute_likert_compare(df) raises: without Likert5 column it reads
\* df["plantel"] for every group; with Likert5 columns it reads df["plantel"]
\* if df has the column, and divides by likert_answers if likert_answers > 0
compute_likert_compare_raises(g, df) ==
    IF falsy(g._plantel_names) THEN FALSE
    ELSE IF falsy(g._likert5_cols) THEN getitem_raises(df, plantel)
    ELSE \E i \in DOMAIN val(g._plantel_names) :
            LET likert_answers == compare_row(g, df, val(g._plantel_names)[i]).likert_answers
            IN  \/ has_column(df, plantel) /\ getitem_raises(df, plantel)
                \/ likert_answers > 0 /\ division_raises(likert_answers)

\* --------------------------------------------------------------- handlers

\* int(raw_id) succeeds: an optional sign and decimal digits, blanks around
is_int(s) ==
    LET t == strip(s)
        d == IF t # <<>> /\ Head(t) \in {"-", "+"} THEN Tail(t) ELSE t
    IN  d # <<>> /\ \A i \in DOMAIN d : d[i] \in {"0", "1", "2", "3", "4", "5", "6", "7", "8", "9"}

RECURSIVE digits_value(_)
digits_value(d) ==
    IF d = <<>> THEN 0
    ELSE 10 * digits_value(SubSeq(d, 1, Len(d) - 1)) + (ord[d[Len(d)]] - ord["0"])

\* mutant: the sign of the id is dropped
int_unsigned(s) ==
    LET t == strip(s)
    IN  IF Head(t) \in {"-", "+"} THEN digits_value(Tail(t)) ELSE digits_value(t)

\* int(raw_id)
int(s) ==
    LET t == strip(s)
    IN  IF Head(t) = "-" THEN 0 - digits_value(Tail(t))
        ELSE IF Head(t) = "+" THEN digits_value(Tail(t))
        ELSE digits_value(t)

\* an exchange of a route without parameter, and of GET /api/data?id=raw_id
reply(route, status, body) == [route |-> route, id |-> NaN, status |-> status, body |-> body]

reply_data(raw_id, status, body) ==
    [route |-> "data", id |-> raw_id, status |-> status, body |-> body]

\* GET /api/health
api_health ==
    \E e \in {ensure_loaded(globals, FALSE)} :
        /\ set_globals(e.g)
        /\ response' =
             IF e.raised THEN reply("health", 500, <<>>)
             ELSE reply("health", 200,
                        [rows |-> IF e.g._df # <<>> THEN Len(val(e.g._df).rows) ELSE 0,
                         planteles |-> IF e.g._plantel_names # <<>>
                                       THEN Len(val(e.g._plantel_names)) ELSE 0,
                         source |-> e.g._loaded_source])
        /\ UNCHANGED <<source, now, DATA_CACHE_TTL_SECONDS, threads>>

\* POST /api/reload: clear_cache(), then ensure_loaded(force=True)
api_reload ==
    \E e \in {ensure_loaded(clear_cache, TRUE)} :
        /\ set_globals(e.g)
        /\ response' =
             IF e.raised THEN reply("reload", 500, <<>>)
             ELSE reply("reload", 200,
                        [rows |-> IF e.g._df # <<>> THEN Len(val(e.g._df).rows) ELSE 0,
                         planteles |-> IF e.g._plantel_names # <<>>
                                       THEN Len(val(e.g._plantel_names)) ELSE 0,
                         source |-> e.g._loaded_source])
        /\ UNCHANGED <<source, now, DATA_CACHE_TTL_SECONDS, threads>>

\* GET /api/planteles
api_planteles ==
    \E e \in {ensure_loaded(globals, FALSE)} :
        /\ set_globals(e.g)
        /\ response' =
             IF e.raised THEN reply("planteles", 500, <<>>)
             ELSE reply("planteles", 200,
                        IF e.g._plantel_names # <<>> THEN val(e.g._plantel_names) ELSE <<>>)
        /\ UNCHANGED <<source, now, DATA_CACHE_TTL_SECONDS, threads>>

\* the response of GET /api/data?id=raw_id once ensure_loaded has returned
\* with the globals g (raw_id = NaN: the parameter is missing)
data_by_id(g, raw_id) ==
    IF raw_id = NaN THEN reply_data(raw_id, 400, <<>>)
    ELSE IF ~is_int(raw_id) THEN reply_data(raw_id, 400, <<>>)
    ELSE IF falsy(g._plantel_names) THEN reply_data(raw_id, 404, <<>>)
    ELSE IF int(raw_id) < 0 \/ int(raw_id) >= Len(val(g._plantel_names))
         THEN reply_data(raw_id, 404, <<>>)
    ELSE LET plantel_name == val(g._plantel_names)[int(raw_id) + 1]
             sub == IF g._df # <<>> THEN rows_of_plantel(val(g._df), plantel_name)
                    ELSE empty_df
         IN  IF compute_results_raises(g, sub) THEN reply_data(raw_id, 500, <<>>)
             ELSE reply_data(raw_id, 200, compute_results(g, sub))

\* GET /api/data
api_data_by_id(raw_id) ==
    \E e \in {ensure_loaded(globals, FALSE)} :
        /\ set_globals(e.g)
        /\ response' = IF e.raised THEN reply_data(raw_id, 500, <<>>)
                       ELSE data_by_id(e.g, raw_id)
        /\ UNCHANGED <<source, now, DATA_CACHE_TTL_SECONDS, threads>>

\* GET /api/data_all
api_data_all ==
    \E e \in {ensure_loaded(globals, FALSE)} :
        /\ set_globals(e.g)
        /\ response' =
             LET sub == IF e.g._df # <<>> THEN val(e.g._df) ELSE empty_df
             IN  IF e.raised \/ compute_results_raises(e.g, sub)
                 THEN reply("data_all", 500, <<>>)
                 ELSE reply("data_all", 200, compute_results(e.g, sub))
        /\ UNCHANGED <<source, now, DATA_CACHE_TTL_SECONDS, threads>>

\* GET /api/likert_compare
api_likert_compare ==
    \E e \in {ensure_loaded(globals, FALSE)} :
        /\ set_globals(e.g)
        /\ response' =
             LET df == IF e.g._df # <<>> THEN val(e.g._df) ELSE empty_df
             IN  IF e.raised \/ compute_likert_compare_raises(e.g, df)
                 THEN reply("likert_compare", 500, <<>>)
                 ELSE reply("likert_compare", 200, compute_likert_compare(e.g, df))
        /\ UNCHANGED <<source, now, DATA_CACHE_TTL_SECONDS, threads>>

\* str(plantel).replace(NBSP, " ").replace(en dash, en dash)
\*     .replace(em dash, en dash).strip()
plantel_clean(text) == strip(replace(replace(text, "nbsp", " "), "emdash", "endash"))

\* GET /api/data/<plantel>, the legacy route
api_data_legacy(text) ==
    \E e \in {ensure_loaded(globals, FALSE)} :
        /\ set_globals(e.g)
        /\ response' =
             LET sub == IF e.g._df # <<>>
                        THEN rows_of_plantel(val(e.g._df), plantel_clean(text))
                        ELSE empty_df
             IN  IF e.raised \/ compute_results_raises(e.g, sub)
                 THEN [route |-> "data_legacy", id |-> text, status |-> 500, body |-> <<>>]
                 ELSE [route |-> "data_legacy", id |-> text, status |-> 200,
                       body |-> compute_results(e.g, sub)]
        /\ UNCHANGED <<source, now, DATA_CACHE_TTL_SECONDS, threads>>

\* ------------------------------------------------------------ build_data.py

\* the cell x of column c after the second loop of main: the cells of a
\* Likert5 column go through likert_map, a YesNo column is only listed
build_canon_cell(likert5_cols, c, x) ==
    IF c \in range(likert5_cols) THEN canon_likert(x) ELSE x

\* df['Nivel Educativo'].str.strip() + ' \u2013 ' + df['Campus'].str.strip()
\* for one row: missing when either cell is
build_plantel_of(df, row) ==
    LET ne == row[col_index(df, Nivel_Educativo)]
        ca == row[col_index(df, Campus)]
    IN  IF ne = NaN \/ ca = NaN THEN NaN
        ELSE strip(ne) \o <<" ","endash"," ">> \o strip(ca)

\* the locals of main before compute_plantel is defined, for a table read
\* from dataset.xlsx that has the two key columns
build_prepare(df) ==
    LET likert5_cols == likert5_cols_of(df)
        yesno_cols == yesno_cols_of(df)
        prepared ==
            [columns |-> df.columns \o <<plantel>>,
             rows |-> [r \in DOMAIN df.rows |->
                          [k \in DOMAIN df.columns |->
                              build_canon_cell(likert5_cols, df.columns[k], df.rows[r][k])]
                          \o <<build_plantel_of(df, df.rows[r])>>]]
    IN  [df |-> prepared,
         likert5_cols |-> likert5_cols,
         yesno_cols |-> yesno_cols,
         all_question_cols |-> likert5_cols \o yesno_cols,
         planteles |-> sorted(dropna_unique(prepared, plantel))]

\* compute_plantel(sub, label), b being the locals of main
compute_plantel(b, sub, label) ==
    LET total == Len(sub.rows)
    IN  [name |-> label,
         total |-> total,
         questions |->
             [i \in DOMAIN b.all_question_cols |->
                 LET col == b.all_question_cols[i]
                     is_likert5_col == col \in range(b.likert5_cols)
                     order == IF is_likert5_col THEN LIKERT5_ORDER ELSE YESNO_ORDER
                 IN  [question |-> col,
                      type |-> IF is_likert5_col THEN "likert5" ELSE "yesno",
                      total |-> total,
                      data |-> [j \in DOMAIN order |->
                                   LET c == value_count(sub, col, order[j])
                                   IN  [label |-> order[j],
                                        count |-> c,
                                        pct |-> IF total > 0 THEN round_pct(c, total)
                                                ELSE 0]]]]]

Todos_los_Planteles == <<"T","o","d","o","s"," ","l","o","s"," ","P","l","a","n","t","e","l","e","s">>

\* main(): the exit status and the content of data.json.  Without dataset.xlsx
\* it exits with 1; without one of the two key columns line 55 raises KeyError
\* and the interpreter exits with 1; data.json is written in neither case.
main(src) ==
    IF load_raises(src) THEN [status |-> 1, output |-> <<>>]
    ELSE IF ~(has_column(src, Nivel_Educativo) /\ has_column(src, Campus))
         THEN [status |-> 1, output |-> <<>>]
    ELSE LET b == build_prepare(src)
         IN  [status |-> 0,
              output |->
                  [all |-> compute_plantel(b, b.df, Todos_los_Planteles),
                   planteles |-> [i \in DOMAIN b.planteles |->
                                     compute_plantel(b, rows_of_plantel(b.df, b.planteles[i]),
                                                     b.planteles[i])],
                   plantel_list |-> b.planteles]]

\* python build_data.py
build_data ==
    \E r \in {main(source)} :
        /\ response' = reply("build_data", r.status, r.output)
        /\ UNCHANGED <<source, _df, _likert5_cols, _yesno_cols, _all_question_cols,
                       _plantel_names, _loaded_at_epoch, _loaded_source, now,
                       DATA_CACHE_TTL_SECONDS, threads>>

\* ----------------------------------------------------------------- inputs

\* the most rows of a table of the ranking family, of the question family and
\* of the percentage family, and the most distinct raw values of a column of
\* the vocabulary family
MaxRankRows == 4
MaxQuestionRows == 2
MaxPctRows == 3
MaxVariants == 11

\* the most rows of a table of the group-key family
MaxKeyRows == 2

\* the most rows of a table of the label family
MaxLabelRows == 3

\* the sequences of length len over lo..n that never decrease
RECURSIVE nondecreasing(_, _, _)
nondecreasing(lo, n, len) ==
    IF len = 0 THEN {<<>>}
    ELSE UNION {{<<k>> \o s : s \in nondecreasing(k, n, len - 1)} : k \in lo..n}

RECURSIVE flatten(_)
flatten(ss) == IF ss = <<>> THEN <<>> ELSE Head(ss) \o flatten(Tail(ss))

\* every row over the per-column value lists doms, as a list
RECURSIVE row_types(_)
row_types(doms) ==
    IF doms = <<>> THEN << <<>> >>
    ELSE LET rest == row_types(Tail(doms))
         IN  flatten([v \in DOMAIN Head(doms) |->
                         [i \in DOMAIN rest |-> <<Head(doms)[v]>> \o rest[i]]])

\* the tables of at most max_rows rows drawn from the list types, in list order
tables_of(columns, types, max_rows) ==
    {[columns |-> columns, rows |-> [i \in DOMAIN s |-> types[s[i]]]] :
        s \in UNION {nondecreasing(1, Len(types), len) : len \in 0..max_rows}}

Q1 == <<"S","e","r","v","i","c","i","o">>
Q2 == <<"R","e","c","o","m","i","e","n","d","a">>

\* ranking: one level, four sites, one question
RankTables ==
    tables_of(<<Nivel_Educativo, Campus, Q1>>,
              << <<<<"P","r","i","m","a","r","i","a">>, <<"E","s","t","e">>, NaN>>,
                 <<<<"P","r","i","m","a","r","i","a">>, <<"E","s","t","e">>, <<"I","n","s","a","t","i","s","f","e","c","h","o">>>>,
                 <<<<"P","r","i","m","a","r","i","a">>, <<"E","s","t","e">>, <<"S","a","t","i","s","f","e","c","h","o">>>>,
                 <<<<"P","r","i","m","a","r","i","a">>, <<"N","o","r","t","e">>, <<"I","n","s","a","t","i","s","f","e","c","h","o">>>>,
                 <<<<"P","r","i","m","a","r","i","a">>, <<"O","e","s","t","e">>, <<"I","n","s","a","t","i","s","f","e","c","h","o">>>>,
                 <<<<"P","r","i","m","a","r","i","a">>, <<"S","u","r">>, <<"S","a","t","i","s","f","e","c","h","o">>>> >>,
              MaxRankRows)

\* questions: no group columns, two columns of any kind
QuestionTables ==
    tables_of(<<Q1, Q2>>,
              row_types(<< <<NaN, <<"I","N","S","A","T","I","S","F","E","C","H","O"," ">>, <<"s","i">>>>,
                           <<NaN, <<"I","N","S","A","T","I","S","F","E","C","H","O"," ">>, <<"s","i">>, <<"T","a","l"," ","v","e","z">>>> >>),
              MaxQuestionRows)

\* percentages: two groups, a Likert5 and a YesNo column with missing cells
PctTables ==
    tables_of(<<Nivel_Educativo, Campus, Q1, Q2>>,
              row_types(<< <<<<"P","r","i","m","a","r","i","a">>>>,
                           <<<<"N","o","r","t","e">>, <<"S","u","r"," ">>>>,
                           <<NaN, <<"s","a","t","i","s","f","e","c","h","o">>>>,
                           <<<<" "," ">>, <<"N","o">>>> >>),
              MaxPctRows)

\* no Likert5 answer: two groups and one column of YesNo answers
YesNoTables ==
    tables_of(<<Nivel_Educativo, Campus, Q2>>,
              row_types(<< <<<<"P","r","i","m","a","r","i","a">>>>,
                           <<<<"N","o","r","t","e">>, <<"S","u","r"," ">>>>,
                           <<NaN, <<"N","o">>, <<"s","i">>>> >>),
              MaxPctRows)

\* distinct raw spellings of Likert5 and of YesNo answers
LikertVariants ==
    <<<<"S","a","t","i","s","f","e","c","h","o">>, <<"s","a","t","i","s","f","e","c","h","o">>, <<"S","A","T","I","S","F","E","C","H","O"," ">>, <<" ","S","a","t","i","s","f","e","c","h","o">>,
      <<"N","e","u","t","r","a","l">>, <<"n","e","u","t","r","a","l">>, <<"N","E","U","T","R","A","L">>, <<"I","n","s","a","t","i","s","f","e","c","h","o">>,
      <<"i","n","s","a","t","i","s","f","e","c","h","o">>, <<"M","u","y"," ","s","a","t","i","s","f","e","c","h","o">>, <<"m","u","y"," ","s","a","t","i","s","f","e","c","h","o">>, <<"M","u","y"," ","i","n","s","a","t","i","s","f","e","c","h","o">>>>

YesNoVariants ==
    <<<<"S","i_acute">>, <<"s","i_acute">>, <<"S","I_acute">>, <<"S","i">>, <<"s","i">>, <<"S","I">>,
      <<"N","o">>, <<"n","o">>, <<"N","O">>, <<" ","n","o">>, <<"s","i"," ">>, <<"s","I">>>>

\* vocabulary: row i holds the i-th spelling of each list, up to n1 and n2
VariantTables ==
    {[columns |-> <<Q1, Q2>>,
      rows |-> [i \in 1..(IF n1 > n2 THEN n1 ELSE n2) |->
                   <<IF i <= n1 THEN LikertVariants[i] ELSE NaN,
                     IF i <= n2 THEN YesNoVariants[i] ELSE NaN>>]] :
        n1 \in 0..MaxVariants, n2 \in 0..MaxVariants}

\* excluded names: two columns named with a keyword, in upper case and inside
\* a longer name, holding answers of the vocabularies, and one question
Grado_col == <<"G","R","A","D","O">>
PorQue_col == <<"2"," ","inv_q","P","o","r"," ","Q","U","E_acute","?">>

SkipTables ==
    tables_of(<<Grado_col, PorQue_col, Q1>>,
              row_types(<< <<NaN, <<"s","a","t","i","s","f","e","c","h","o">>>>,
                           <<<<"s","i">>, <<"s","a","t","i","s","f","e","c","h","o">>>>,
                           <<<<"s","a","t","i","s","f","e","c","h","o">>, <<"n","o">>>> >>),
              MaxQuestionRows)

\* group keys: level and site with missing cells, blanks around and inside,
\* a non-breaking space and an em dash; both columns, or only one of them
LevelTexts == <<NaN, <<"M","e","d","i","a"," "," ","S","u","p","e","r","i","o","r"," ">>>>
SiteTexts == <<<<"N","o","r","t","e">>, <<"N","o","r","t","e","nbsp">>, <<"A","emdash","B">>>>

KeyTables ==
    tables_of(<<Nivel_Educativo, Campus>>, row_types(<<LevelTexts, SiteTexts>>), MaxKeyRows)
    \cup tables_of(<<Nivel_Educativo>>, row_types(<<LevelTexts>>), MaxKeyRows)
    \cup tables_of(<<Campus>>, row_types(<<SiteTexts>>), MaxKeyRows)

Q3 == <<"L","i","m","p","i","e","z","a">>

\* cells: two groups and two Likert5 columns with missing cells
CellTables ==
    tables_of(<<Nivel_Educativo, Campus, Q1, Q3>>,
              flatten([s \in 1..2 |->
                  [a \in 1..3 |->
                      <<<<"P","r","i","m","a","r","i","a">>, <<<<"E","s","t","e">>, <<"N","o","r","t","e">>>>[s]>>
                      \o << <<NaN, NaN>>,
                            <<<<"I","n","s","a","t","i","s","f","e","c","h","o">>, NaN>>,
                            <<<<"I","n","s","a","t","i","s","f","e","c","h","o">>, <<"n","e","u","t","r","a","l">>>> >>[a]]]),
              MaxPctRows)

\* labels: one group and one column of the five labels with missing cells
LabelTables ==
    tables_of(<<Q1>>,
              row_types(<< <<NaN, <<"M","u","y"," ","s","a","t","i","s","f","e","c","h","o">>, <<"S","a","t","i","s","f","e","c","h","o">>, <<"N","e","u","t","r","a","l">>,
                             <<"I","n","s","a","t","i","s","f","e","c","h","o">>, <<"M","u","y"," ","i","n","s","a","t","i","s","f","e","c","h","o">>>> >>),
              MaxLabelRows)

\* the most rows of a table given to build_data.py
MaxBuildRows == 2

\* build: one level, two sites, a Likert5 and a YesNo question answered in
\* every row, in the spellings of a form export
BuildTables ==
    {t \in tables_of(<<Nivel_Educativo, Campus, Q1, Q2>>,
                     row_types(<< <<<<"P","r","i","m","a","r","i","a">>>>, <<<<"N","o","r","t","e">>, <<"S","u","r">>>>,
                                  <<<<"S","a","t","i","s","f","e","c","h","o">>, <<"n","e","u","t","r","a","l">>>>,
                                  <<<<"S","i_acute">>, <<"s","i">>, <<"N","o">>>> >>),
                     MaxBuildRows) : t.rows # <<>>}
    \cup {[columns |-> <<Q1, Q2>>, rows |-> << <<<<"S","a","t","i","s","f","e","c","h","o">>, <<"N","o">>>> >>],
          Unavailable}

Tables ==
    RankTables \cup QuestionTables \cup PctTables \cup YesNoTables \cup VariantTables
    \cup SkipTables \cup KeyTables \cup CellTables \cup LabelTables
    \cup {empty_df, Unavailable}

\* the id parameter of GET /api/data
RawIds == {NaN, <<"x">>, <<"-","1">>, <<"0">>, <<"1">>, <<"2">>}

\* the texts GET /api/data/<plantel> is asked for: the fallback group name
\* between blanks, and a name no table has
PlantelTexts == {<<" ","P","l","a","n","t","e","l"," ">>, <<"O","t","r","o">>}

\* ---------------------------------------------------------------- threads

\* app.run() serves every request in a thread of its own, and the handlers
\* take no lock: a thread can be preempted between any two reads or
\* assignments of the module globals.  A thread is
\*   req     the request: "none", "data" (GET /api/data?id=0) or "reload"
\*   pc      where it is: "idle", "clear", "check", "load", "assign", "read",
\*           "respond", "done"
\*   k       the global that clear_cache, the assignments of ensure_loaded or
\*           the reads of the handler have come to
\*   raised  whether load_data raised
\*   loc     the locals of ensure_loaded after load_data
\*   n_read  the number of globals the handler has read
\*   view    the values it read

\* the number of server threads
NumThreads == 2

Threads == 1..NumThreads

\* the globals in the order clear_cache and ensure_loaded assign them
AssignOrder ==
    <<"_df", "_likert5_cols", "_yesno_cols", "_all_question_cols", "_plantel_names",
      "_loaded_at_epoch", "_loaded_source">>

\* the globals in the order api_data_by_id and compute_results read them
ReadOrder ==
    <<"_plantel_names", "_df", "_all_question_cols", "_likert5_cols", "_yesno_cols">>

no_view ==
    [_plantel_names |-> <<>>, _df |-> <<>>, _all_question_cols |-> <<>>,
     _likert5_cols |-> <<>>, _yesno_cols |-> <<>>]

idle_thread ==
    [req |-> "none", pc |-> "idle", k |-> 1, raised |-> FALSE, loc |-> clear_cache,
     n_read |-> 0, view |-> no_view]

\* a request for GET /api/data?id=0 arrives: ensure_loaded()
begin_data(t) ==
    /\ threads[t].pc = "idle"
    /\ threads' = [threads EXCEPT ![t] = [idle_thread EXCEPT !.req = "data", !.pc = "check"]]
    /\ UNCHANGED <<source, _df, _likert5_cols, _yesno_cols, _all_question_cols,
                   _plantel_names, _loaded_at_epoch, _loaded_source, now, DATA_CACHE_TTL_SECONDS, response>>

\* a request for POST /api/reload arrives: clear_cache()
begin_reload(t) ==
    /\ threads[t].pc = "idle"
    /\ threads' = [threads EXCEPT ![t] = [idle_thread EXCEPT !.req = "reload", !.pc = "clear"]]
    /\ UNCHANGED <<source, _df, _likert5_cols, _yesno_cols, _all_question_cols,
                   _plantel_names, _loaded_at_epoch, _loaded_source, now, DATA_CACHE_TTL_SECONDS, response>>

\* one assignment of clear_cache; after the last, ensure_loaded(force=True)
clear_cache_step(t) ==
    /\ threads[t].pc = "clear"
    /\ set_globals([globals EXCEPT ![AssignOrder[threads[t].k]] =
                                       clear_cache[AssignOrder[threads[t].k]]])
    /\ threads' = [threads EXCEPT ![t] =
                      IF threads[t].k = Len(AssignOrder)
                      THEN [@ EXCEPT !.pc = "load", !.k = 1]
                      ELSE [@ EXCEPT !.k = @ + 1]]
    /\ UNCHANGED <<source, now, DATA_CACHE_TTL_SECONDS, response>>

\* the test of ensure_loaded(force=False) on the cache
ensure_loaded_check(t) ==
    /\ threads[t].pc = "check"
    /\ threads' = [threads EXCEPT ![t].pc =
                      IF cache_fresh(globals, FALSE) THEN "read" ELSE "load"]
    /\ UNCHANGED <<source, _df, _likert5_cols, _yesno_cols, _all_question_cols,
                   _plantel_names, _loaded_at_epoch, _loaded_source, now, DATA_CACHE_TTL_SECONDS, response>>

\* load_data() into the locals of ensure_loaded
ensure_loaded_load(t) ==
    /\ threads[t].pc = "load"
    /\ \E l \in {IF load_raises(source) THEN clear_cache ELSE loaded_globals(source)} :
          threads' = [threads EXCEPT ![t] =
                         IF load_raises(source)
                         THEN [@ EXCEPT !.pc = "respond", !.raised = TRUE]
                         ELSE [@ EXCEPT !.pc = "assign", !.k = 1, !.loc = l]]
    /\ UNCHANGED <<source, _df, _likert5_cols, _yesno_cols, _all_question_cols,
                   _plantel_names, _loaded_at_epoch, _loaded_source, now, DATA_CACHE_TTL_SECONDS, response>>

\* one assignment of ensure_loaded; after the last, the handler goes on
ensure_loaded_assign(t) ==
    /\ threads[t].pc = "assign"
    /\ set_globals([globals EXCEPT ![AssignOrder[threads[t].k]] =
                                       threads[t].loc[AssignOrder[threads[t].k]]])
    /\ threads' = [threads EXCEPT ![t] =
                      IF threads[t].k < Len(AssignOrder) THEN [@ EXCEPT !.k = @ + 1]
                      ELSE IF threads[t].req = "data" THEN [@ EXCEPT !.pc = "read", !.k = 1]
                      ELSE [@ EXCEPT !.pc = "respond"]]
    /\ UNCHANGED <<source, now, DATA_CACHE_TTL_SECONDS, response>>

\* api_data_by_id reads one global; without group list it answers at once
handler_read(t) ==
    /\ threads[t].pc = "read"
    /\ threads' = [threads EXCEPT ![t] =
                      LET f == ReadOrder[threads[t].k]
                          stop == \/ threads[t].k = Len(ReadOrder)
                                  \/ f = "_plantel_names" /\ falsy(globals[f])
                      IN  [@ EXCEPT !.view = [@ EXCEPT ![f] = globals[f]],
                                    !.n_read = threads[t].k,
                                    !.k = IF stop THEN @ ELSE @ + 1,
                                    !.pc = IF stop THEN "respond" ELSE @]]
    /\ UNCHANGED <<source, _df, _likert5_cols, _yesno_cols, _all_question_cols,
                   _plantel_names, _loaded_at_epoch, _loaded_source, now, DATA_CACHE_TTL_SECONDS, response>>

\* the handler returns its response
handler_respond(t) ==
    /\ threads[t].pc = "respond"
    /\ response' =
          IF threads[t].req = "data"
          THEN IF threads[t].raised THEN reply_data(<<"0">>, 500, <<>>)
               ELSE data_by_id(threads[t].view, <<"0">>)
          ELSE IF threads[t].raised THEN reply("reload", 500, <<>>)
               ELSE reply("reload", 200,
                          [rows |-> IF _df # <<>> THEN Len(val(_df).rows) ELSE 0,
                           planteles |-> IF _plantel_names # <<>>
                                         THEN Len(val(_plantel_names)) ELSE 0,
                           source |-> _loaded_source])
    /\ threads' = [threads EXCEPT ![t].pc = "done"]
    /\ UNCHANGED <<source, _df, _likert5_cols, _yesno_cols, _all_question_cols,
                   _plantel_names, _loaded_at_epoch, _loaded_source, now, DATA_CACHE_TTL_SECONDS>>

\* the two contents of dataset.xlsx: a survey, and the survey after an edit
ThreadTables ==
    {[columns |-> <<Nivel_Educativo, Campus, Q1, Q2>>,
      rows |-> << <<<<"P","r","i","m","a","r","i","a">>, <<"N","o","r","t","e">>, <<"S","a","t","i","s","f","e","c","h","o">>, <<"N","o">>>> >>],
     [columns |-> <<Nivel_Educativo, Campus, Q2, Q3>>,
      rows |-> << <<<<"P","r","i","m","a","r","i","a">>, <<"S","u","r">>, <<"s","i">>, <<"N","e","u","t","r","a","l">>>>,
                  <<<<"P","r","i","m","a","r","i","a">>, <<"S","u","r">>, <<"N","o">>, <<"N","e","u","t","r","a","l">>>> >>]}

\* dataset.xlsx is replaced
source_changes ==
    /\ source' \in ThreadTables \ {source}
    /\ UNCHANGED <<_df, _likert5_cols, _yesno_cols, _all_question_cols,
                   _plantel_names, _loaded_at_epoch, _loaded_source, now, DATA_CACHE_TTL_SECONDS, response,
                   threads>>

InitThreads ==
    /\ source \in ThreadTables
    /\ _df = <<>>
    /\ _likert5_cols = <<>>
    /\ _yesno_cols = <<>>
    /\ _all_question_cols = <<>>
    /\ _plantel_names = <<>>
    /\ _loaded_at_epoch = <<>>
    /\ _loaded_source = "unknown"
    /\ now = 0
    /\ DATA_CACHE_TTL_SECONDS = DEFAULT_CACHE_TTL
    /\ response = reply("none", 0, <<>>)
    /\ threads = [t \in Threads |-> idle_thread]

NextThreads ==
    \/ \E t \in Threads : begin_data(t)
    \/ \E t \in Threads : begin_reload(t)
    \/ \E t \in Threads : clear_cache_step(t)
    \/ \E t \in Threads : ensure_loaded_check(t)
    \/ \E t \in Threads : ensure_loaded_load(t)
    \/ \E t \in Threads : ensure_loaded_assign(t)
    \/ \E t \in Threads : handler_read(t)
    \/ \E t \in Threads : handler_respond(t)
    \/ source_changes

SpecThreads == InitThreads /\ [][NextThreads]_vars

\* ------------------------------------------------------------ state machine

Init ==
    /\ source \in Tables
    /\ _df = <<>>
    /\ _likert5_cols = <<>>
    /\ _yesno_cols = <<>>
    /\ _all_question_cols = <<>>
    /\ _plantel_names = <<>>
    /\ _loaded_at_epoch = <<>>
    /\ _loaded_source = "unknown"
    /\ now = 0
    /\ DATA_CACHE_TTL_SECONDS = DEFAULT_CACHE_TTL
    /\ response = reply("none", 0, <<>>)
    /\ threads = [t \in Threads |-> idle_thread]

Next ==
    \/ api_health
    \/ api_reload
    \/ api_planteles
    \/ \E raw_id \in RawIds : api_data_by_id(raw_id)
    \/ api_data_all
    \/ api_likert_compare
    \/ \E text \in PlantelTexts : api_data_legacy(text)

Spec == Init /\ [][Next]_vars

\* ensure_loaded(force) called on its own: the response records the argument,
\* whether the call raised, how many times it called load_data, and the time
call_ensure_loaded(force) ==
    \E e \in {ensure_loaded(globals, force)} :
        /\ set_globals(e.g)
        /\ response' = reply("ensure_loaded", 0,
                             [force |-> force, raised |-> e.raised, loads |-> e.loads,
                              at |-> now])
        /\ UNCHANGED <<source, now, DATA_CACHE_TTL_SECONDS, threads>>

\* clear_cache() called on its own
call_clear_cache ==
    /\ set_globals(clear_cache)
    /\ response' = reply("clear_cache", 0, <<>>)
    /\ UNCHANGED <<source, now, DATA_CACHE_TTL_SECONDS, threads>>

\* the most steps of the clock
MaxTicks == 4

\* time.time() advances by half the default lifetime
tick ==
    /\ now < MaxTicks * (DEFAULT_CACHE_TTL \div 2)
    /\ now' = now + (DEFAULT_CACHE_TTL \div 2)
    /\ UNCHANGED <<source, _df, _likert5_cols, _yesno_cols, _all_question_cols,
                   _plantel_names, _loaded_at_epoch, _loaded_source,
                   DATA_CACHE_TTL_SECONDS, response, threads>>

\* dataset.xlsx is removed, or the endpoint stops answering
source_lost ==
    /\ source # Unavailable
    /\ source' = Unavailable
    /\ UNCHANGED <<_df, _likert5_cols, _yesno_cols, _all_question_cols,
                   _plantel_names, _loaded_at_epoch, _loaded_source, now,
                   DATA_CACHE_TTL_SECONDS, response, threads>>

\* the values of the environment variable DATA_CACHE_TTL_SECONDS
CacheTtls == {0 - DEFAULT_CACHE_TTL, 0, DEFAULT_CACHE_TTL}

\* the cache over time: the server starts with any lifetime, the clock
\* advances, and the source changes or fails between the calls
InitCache ==
    /\ source \in ThreadTables \cup {Unavailable}
    /\ _df = <<>>
    /\ _likert5_cols = <<>>
    /\ _yesno_cols = <<>>
    /\ _all_question_cols = <<>>
    /\ _plantel_names = <<>>
    /\ _loaded_at_epoch = <<>>
    /\ _loaded_source = "unknown"
    /\ now = 0
    /\ DATA_CACHE_TTL_SECONDS \in CacheTtls
    /\ response = reply("none", 0, <<>>)
    /\ threads = [t \in Threads |-> idle_thread]

NextCache ==
    \/ \E force \in BOOLEAN : call_ensure_loaded(force)
    \/ call_clear_cache
    \/ api_reload
    \/ api_planteles
    \/ tick
    \/ source_changes
    \/ source_lost

SpecCache == InitCache /\ [][NextCache]_vars

\* build_data.py and the server started on the same dataset.xlsx
InitBuild ==
    /\ source \in BuildTables
    /\ _df = <<>>
    /\ _likert5_cols = <<>>
    /\ _yesno_cols = <<>>
    /\ _all_question_cols = <<>>
    /\ _plantel_names = <<>>
    /\ _loaded_at_epoch = <<>>
    /\ _loaded_source = "unknown"
    /\ now = 0
    /\ DATA_CACHE_TTL_SECONDS = DEFAULT_CACHE_TTL
    /\ response = reply("none", 0, <<>>)
    /\ threads = [t \in Threads |-> idle_thread]

NextBuild ==
    \/ build_data
    \/ api_data_all
    \/ \E raw_id \in RawIds : api_data_by_id(raw_id)

SpecBuild == InitBuild /\ [][NextBuild]_vars

\* ------------------------------------------------------------- properties

\* a snapshot is cached
Loaded == _df # <<>>

\* the last exchange returned a compare payload, a list of question entries
CompareOk == response.route = "likert_compare" /\ response.status = 200
DataOk == response.route \in {"data", "data_all"} /\ response.status = 200

\* the rows the last data exchange aggregated: one group's, or the whole table
Subset ==
    IF response.route = "data_all" THEN val(_df)
    ELSE rows_of_plantel(val(_df), val(_plantel_names)[int(response.id) + 1])

\* the positions of a payload with likert_answers > 0, and those flagged
Eligible(P) == {i \in DOMAIN P.foco_red : P.likert_answers[i] > 0}
Flagged(P) == {i \in DOMAIN P.foco_red : P.foco_red[i]}

\* C1: exactly min(3, E) entries of foco_red are true, E the number of groups
\* with likert_answers > 0; every flagged group has likert_answers > 0; the
\* flagged groups are the first min(3, E) such groups in output order.
C1_FocoRedCount ==
    CompareOk =>
        LET E == Eligible(response.body)
            F == Flagged(response.body)
        IN  /\ Cardinality(F) = (IF Cardinality(E) < 3 THEN Cardinality(E) ELSE 3)
            /\ F \subseteq E
            /\ F = {i \in E : Cardinality({j \in E : j < i}) < 3}

\* more than three groups have answers, so one of them is not flagged
C1_Witness ==
    /\ CompareOk
    /\ Cardinality(Eligible(response.body)) > 3
    /\ Eligible(response.body) \ Flagged(response.body) # {}

\* C2 as stated: no group with foco_red = false appears before a group with
\* foco_red = true.
C2_FlaggedArePrefix ==
    CompareOk =>
        \A i, j \in DOMAIN response.body.foco_red :
            (i < j /\ response.body.foco_red[j]) => response.body.foco_red[i]

\* C2 amended: the flagged groups are a prefix of the groups with
\* likert_answers > 0 in output order: an unflagged group before a flagged one
\* has likert_answers = 0, and no group with likert_answers = 0 is flagged.
C2_FlaggedArePrefixOfEligible ==
    CompareOk =>
        /\ \A i, j \in DOMAIN response.body.foco_red :
              (i < j /\ response.body.foco_red[j] /\ ~response.body.foco_red[i])
                  => response.body.likert_answers[i] = 0
        /\ \A i \in DOMAIN response.body.foco_red :
              response.body.likert_answers[i] = 0 => ~response.body.foco_red[i]

\* a group without answers is placed before a flagged group
C2_Witness ==
    /\ CompareOk
    /\ \E i, j \in DOMAIN response.body.foco_red :
          i < j /\ response.body.foco_red[j] /\ ~response.body.foco_red[i]

\* C3: in every payload with at least one group the groups are sorted by
\* (-negative_pct, -respondents, name ascending) and every array of the
\* payload has one entry per group.
C3_SortedByKey ==
    (CompareOk /\ Len(response.body.planteles) >= 1) =>
        LET P == response.body
            n == Len(P.planteles)
        IN  /\ Len(P.respondents) = n /\ Len(P.likert_answers) = n
            /\ Len(P.negative_pct) = n /\ Len(P.positive_pct) = n
            /\ Len(P.foco_red) = n
            /\ \A k \in DOMAIN P.pct_by_label : Len(P.pct_by_label[k]) = n
            /\ \A i, j \in 1..n :
                  i < j =>
                      \/ P.negative_pct[i] > P.negative_pct[j]
                      \/ /\ P.negative_pct[i] = P.negative_pct[j]
                         /\ P.respondents[i] > P.respondents[j]
                      \/ /\ P.negative_pct[i] = P.negative_pct[j]
                         /\ P.respondents[i] = P.respondents[j]
                         /\ str_lt(P.planteles[i], P.planteles[j])

\* C4: compute_results returns one entry for every classified column, and the
\* empty list only when no column was classified.
C4_OneEntryPerQuestion ==
    DataOk =>
        /\ Len(response.body) = Len(val(_likert5_cols)) + Len(val(_yesno_cols))
        /\ response.body = <<>> => (val(_likert5_cols) = <<>> /\ val(_yesno_cols) = <<>>)

\* C5: the question order is the Likert5 columns in table column order, then
\* the YesNo columns in table column order, and the entries compute_results
\* returns are in that order.
C5_QuestionOrder ==
    Loaded =>
        LET L == SelectSeq(val(_df).columns, LAMBDA c : c \in range(val(_likert5_cols)))
            Y == SelectSeq(val(_df).columns, LAMBDA c : c \in range(val(_yesno_cols)))
        IN  /\ val(_likert5_cols) = L
            /\ val(_yesno_cols) = Y
            /\ val(_all_question_cols) = L \o Y
            /\ (DataOk /\ response.body # <<>>) =>
                  [i \in DOMAIN response.body |-> response.body[i].question] = L \o Y

\* entries are returned for a table whose first question column is YesNo and
\* whose second is Likert5
C5_Witness ==
    /\ DataOk
    /\ response.body # <<>>
    /\ \E i, j \in DOMAIN val(_df).columns :
          /\ i < j
          /\ val(_df).columns[i] \in range(val(_yesno_cols))
          /\ val(_df).columns[j] \in range(val(_likert5_cols))

\* the fixed labels of a kind
LabelsOf(type) ==
    IF type = "likert5"
    THEN <<Muy_satisfecho, Satisfecho, Neutral, Insatisfecho, Muy_insatisfecho>>
    ELSE <<Si, No>>

\* the cells of column col in the rows the last data exchange aggregated
SubsetCells(col) ==
    [r \in DOMAIN Subset.rows |-> Subset.rows[r][col_index(Subset, col)]]

\* C6: the data of every entry lists the fixed labels of its kind in the fixed
\* order, and a label that no row carries has count 0.
C6_FixedLabels ==
    DataOk =>
        \A i \in DOMAIN response.body :
            LET e == response.body[i]
            IN  /\ e.type \in {"likert5", "yesno"}
                /\ (e.type = "likert5") <=> (e.question \in range(val(_likert5_cols)))
                /\ [j \in DOMAIN e.data |-> e.data[j].label] = LabelsOf(e.type)
                /\ \A j \in DOMAIN e.data :
                      (e.data[j].label \notin range(SubsetCells(e.question)))
                          => e.data[j].count = 0

\* entries of both kinds are returned and some label is carried by no row
C6_Witness ==
    /\ DataOk
    /\ \E i, k \in DOMAIN response.body :
          /\ response.body[i].type = "likert5"
          /\ response.body[k].type = "yesno"
          /\ \E j \in DOMAIN response.body[i].data : response.body[i].data[j].count > 0
          /\ \E j \in DOMAIN response.body[i].data : response.body[i].data[j].count = 0

\* the sum of the label counts of an entry
CountSum(e) == sum_seq([j \in DOMAIN e.data |-> e.data[j].count])

\* C7: the label counts of an entry sum to at most total, the number of rows of
\* the subset, with equality iff no row holds a null or unmapped value in that
\* column.
C7_CountsWithinTotal ==
    DataOk =>
        \A i \in DOMAIN response.body :
            LET e == response.body[i]
                cells == SubsetCells(e.question)
            IN  /\ e.total = Len(Subset.rows)
                /\ CountSum(e) <= e.total
                /\ (CountSum(e) = e.total) <=>
                      (\A r \in DOMAIN cells : cells[r] \in range(LabelsOf(e.type)))

\* one entry has a row without a label, another has a label in every row
C7_Witness ==
    /\ DataOk
    /\ \E i, k \in DOMAIN response.body :
          /\ CountSum(response.body[i]) < response.body[i].total
          /\ CountSum(response.body[k]) = response.body[k].total
          /\ response.body[k].total > 1

RawCell(r, k) == _normalize_cell(source.rows[r][k])

\* the distinct non-null values of column k of that table
RawDistinct(k) == {RawCell(r, k) : r \in DOMAIN source.rows} \ {NaN}

\* the five Likert labels and the YesNo answers, lower-cased
LikertLower ==
    {lower(l) : l \in {Muy_satisfecho, Satisfecho, Neutral, Insatisfecho, Muy_insatisfecho}}
YesNoLower == {<<"s","i_acute">>, <<"s","i">>, <<"n","o">>}

\* C9: a column not excluded by name is Likert5 iff it has at most 10 distinct
\* non-null raw values and their lower-cased trimmed set is within the five
\* Likert labels; it is YesNo iff it has at most 10 distinct raw values, is
\* not Likert5 and that set is within {sí, si, no}; otherwise it is in neither
\* list.
C9_Classification ==
    Loaded =>
        \A k \in DOMAIN source.columns :
            LET c == source.columns[k]
                norm == {lower(strip(v)) : v \in RawDistinct(k)}
                few == Cardinality(RawDistinct(k)) <= 10
                likert == few /\ norm \subseteq LikertLower
            IN  ~is_skipped(c) =>
                    /\ (c \in range(val(_likert5_cols))) <=> likert
                    /\ (c \in range(val(_yesno_cols))) <=>
                          (few /\ ~likert /\ norm \subseteq YesNoLower)

\* a column holds 11 distinct spellings of Likert labels and is in neither
\* list, another holds 10 and is Likert5
C9_Witness ==
    /\ Loaded
    /\ \E k \in DOMAIN source.columns :
          /\ Cardinality(RawDistinct(k)) = 11
          /\ {lower(strip(v)) : v \in RawDistinct(k)} \subseteq YesNoLower
          /\ source.columns[k] \notin range(val(_all_question_cols))
    /\ \E k \in DOMAIN source.columns :
          /\ Cardinality(RawDistinct(k)) = 10
          /\ source.columns[k] \in range(val(_likert5_cols))

\* the columns not excluded by name that hold no non-null value
AllNullColumns ==
    {source.columns[k] : k \in {k \in DOMAIN source.columns :
        ~is_skipped(source.columns[k]) /\ RawDistinct(k) = {}}}

\* C10: a column not excluded by name and without non-null value is Likert5,
\* not YesNo; it is in the question list, every label count of its entry is
\* 0, and likert_answers counts the cells of the other Likert5 columns only.
C10_AllNullIsLikert5 ==
    Loaded =>
        \A c \in AllNullColumns :
            /\ c \in range(val(_likert5_cols))
            /\ c \notin range(val(_yesno_cols))
            /\ c \in range(val(_all_question_cols))
            /\ DataOk =>
                  \A i \in DOMAIN response.body :
                      response.body[i].question = c =>
                          /\ response.body[i].type = "likert5"
                          /\ \A j \in DOMAIN response.body[i].data :
                                response.body[i].data[j].count = 0
            /\ CompareOk =>
                  \A i \in DOMAIN response.body.planteles :
                      response.body.likert_answers[i] =
                          Cardinality(
                              {<<r, k>> \in (DOMAIN val(_df).rows) \X (DOMAIN val(_df).columns) :
                                  /\ val(_df).columns[k] \in range(val(_likert5_cols)) \ {c}
                                  /\ val(_df).rows[r][col_index(val(_df), plantel)]
                                        = response.body.planteles[i]
                                  /\ val(_df).rows[r][k] # NaN})

\* the entry of a column without values is returned, with rows in the table
C10_Witness ==
    /\ DataOk
    /\ Len(val(_df).rows) >= 2
    /\ \E i \in DOMAIN response.body : response.body[i].question \in AllNullColumns

\* the keywords that exclude a column by its name
Blocklist ==
    {<<"m","a","r","c","a"," ","t","e","m","p","o","r","a","l">>, <<"n","o","m","b","r","e"," ","d","e","l"," ","a","l","u","m","n","o">>, <<"c","a","m","p","u","s">>, <<"n","i","v","e","l"," ","e","d","u","c","a","t","i","v","o">>,
     <<"g","r","a","d","o">>, <<"inv_q","p","o","r"," ","q","u","e_acute">>, <<"c","o","m","e","n","t","a","r","i","o","s">>, <<"s","u","g","e","r","e","n","c","i","a","s">>}

\* the columns of the table whose name contains a keyword, whatever the case
BlockedColumns ==
    {k \in DOMAIN source.columns :
        \E kw \in Blocklist : contains(lower(source.columns[k]), kw)}

\* C11: a column whose name contains a blocklist keyword as a case-insensitive
\* substring is in neither the Likert5 nor the YesNo list, whatever its values,
\* and its cells are the cells classify_and_prepare was given.
C11_BlocklistExcluded ==
    Loaded =>
        \A k \in BlockedColumns :
            /\ source.columns[k] \notin range(val(_likert5_cols))
            /\ source.columns[k] \notin range(val(_yesno_cols))
            /\ source.columns[k] \notin range(val(_all_question_cols))
            /\ \A r \in DOMAIN source.rows :
                  val(_df).rows[r][k] = RawCell(r, k)

\* an excluded column in upper case holds only Likert answers, another holds
\* only YesNo answers, and a question column of the same table is classified
C11_Witness ==
    /\ Loaded
    /\ Len(source.rows) >= 2
    /\ \E k \in BlockedColumns :
          /\ source.columns[k] # lower(source.columns[k])
          /\ RawDistinct(k) = {<<"s","a","t","i","s","f","e","c","h","o">>}
    /\ \E k \in BlockedColumns : RawDistinct(k) = {<<"s","i">>}
    /\ val(_all_question_cols) # <<>>

\* the canonical label of the raw cell x under the map of a kind, x itself when
\* the map has no entry for its lower-cased trimmed text
CanonicalOf(type, x) ==
    LET hits == {l \in range(LabelsOf(type)) :
                    \/ lower(l) = lower(strip(x))
                    \/ l = Si /\ lower(strip(x)) = <<"s","i">>}
    IN  IF hits = {} THEN x ELSE CHOOSE l \in hits : TRUE

\* the kind of column c in the cached lists: "likert5", "yesno" or "none"
KindOf(c) ==
    IF c \in range(val(_likert5_cols)) THEN "likert5"
    ELSE IF c \in range(val(_yesno_cols)) THEN "yesno" ELSE "none"

\* C12: the cached table has the rows it was given; in a classified column a
\* null cell is null, a cell whose lower-cased trimmed text is in the map of
\* the kind is that map's canonical label and any other cell is as given; the
\* cells of an unclassified column are as given.
C12_CanonicalizationKeepsData ==
    Loaded =>
        /\ Len(val(_df).rows) = Len(source.rows)
        /\ \A k \in DOMAIN source.columns :
              \A r \in DOMAIN source.rows :
                  LET x == RawCell(r, k)
                      y == val(_df).rows[r][k]
                      kind == KindOf(source.columns[k])
                  IN  /\ x = NaN => y = NaN
                      /\ (x # NaN /\ kind # "none") => y = CanonicalOf(kind, x)
                      /\ kind = "none" => y = x

\* a classified column holds a null cell and a cell that was replaced, and an
\* unclassified column holds an answer of a vocabulary
C12_Witness ==
    /\ Loaded
    /\ \E k \in DOMAIN source.columns :
          /\ KindOf(source.columns[k]) # "none"
          /\ \E r \in DOMAIN source.rows : RawCell(r, k) = NaN
          /\ \E r \in DOMAIN source.rows :
                /\ RawCell(r, k) # NaN
                /\ val(_df).rows[r][k] # RawCell(r, k)
    /\ \E k \in DOMAIN source.columns :
          /\ KindOf(source.columns[k]) = "none"
          /\ \E r \in DOMAIN source.rows :
                /\ RawCell(r, k) # NaN
                /\ lower(strip(RawCell(r, k))) \in LikertLower \cup YesNoLower

\* the group key of row r of the cached table
KeyOfRow(r) == val(_df).rows[r][col_index(val(_df), plantel)]

\* the table given has both identifying columns
BothKeyColumns ==
    Nivel_Educativo \in range(source.columns) /\ Campus \in range(source.columns)

\* C13: with both columns Nivel Educativo and Campus the group key of a row is
\* clean_text(level) + " - " (en dash) + clean_text(site) of its two fields;
\* with either column absent the group key of every row is "Plantel".
C13_GroupKey ==
    Loaded =>
        \A r \in DOMAIN source.rows :
            KeyOfRow(r) =
                IF BothKeyColumns
                THEN _clean_text_series(
                         RawCell(r, col_index(source, Nivel_Educativo)))
                     \o <<" ", "endash", " ">> \o
                     _clean_text_series(RawCell(r, col_index(source, Campus)))
                ELSE <<"P","l","a","n","t","e","l">>

\* both columns are present, a level is changed by clean_text and a site holds
\* an em dash
C13_Witness ==
    /\ Loaded
    /\ BothKeyColumns
    /\ \E r \in DOMAIN source.rows :
          LET level == RawCell(r, col_index(source, Nivel_Educativo))
          IN  level # NaN /\ _clean_text_series(level) # level
    /\ \E r \in DOMAIN source.rows :
          LET site == RawCell(r, col_index(source, Campus))
          IN  site # NaN /\ "emdash" \in range(site)

\* the last exchange returned the entries of one group
DataByIdOk == response.route = "data" /\ response.status = 200

\* the rows of the cached table whose group key is name
RowsOfGroup(name) == {r \in DOMAIN val(_df).rows : KeyOfRow(r) = name}

\* C14: the group list is the set of distinct group keys of the rows of the
\* snapshot, without duplicates and in strictly ascending order, the id of a
\* group being its 0-based position; GET /api/data?id=i aggregates exactly
\* the rows whose group key is the i-th name.
C14_GroupDirectory ==
    Loaded =>
        LET names == val(_plantel_names)
        IN  /\ range(names) = {KeyOfRow(r) : r \in DOMAIN val(_df).rows}
            /\ \A i, j \in DOMAIN names : i < j => str_lt(names[i], names[j])
            /\ DataByIdOk =>
                  LET rows == RowsOfGroup(names[int(response.id) + 1])
                  IN  /\ int(response.id) \in 0..(Len(names) - 1)
                      /\ \A q \in DOMAIN response.body :
                            LET e == response.body[q]
                                k == col_index(val(_df), e.question)
                            IN  /\ e.total = Cardinality(rows)
                                /\ \A j \in DOMAIN e.data :
                                      e.data[j].count =
                                          Cardinality({r \in rows :
                                              val(_df).rows[r][k] = e.data[j].label})

\* the entries of the second of two groups are returned: two rows of the
\* three of the table
C14_Witness ==
    /\ DataByIdOk
    /\ response.id = <<"1">>
    /\ response.body # <<>>
    /\ Len(val(_plantel_names)) = 2
    /\ Cardinality(RowsOfGroup(val(_plantel_names)[2])) = 2
    /\ Len(val(_df).rows) = 3
    /\ \E q \in DOMAIN response.body :
          \E j \in DOMAIN response.body[q].data :
              response.body[q].data[j].count = 1

\* the non-null cells of the Likert5 columns in the rows of the group name
LikertCells(name) ==
    {<<r, k>> \in RowsOfGroup(name) \X (DOMAIN val(_df).columns) :
        /\ val(_df).columns[k] \in range(val(_likert5_cols))
        /\ val(_df).rows[r][k] # NaN}

\* C15: for every group of the compare payload, respondents is the number of
\* rows with that group key and likert_answers is the number of non-null cells
\* over all Likert5 columns of those rows.
C15_RespondentsAndAnswers ==
    CompareOk =>
        \A i \in DOMAIN response.body.planteles :
            /\ response.body.respondents[i] =
                  Cardinality(RowsOfGroup(response.body.planteles[i]))
            /\ response.body.likert_answers[i] =
                  Cardinality(LikertCells(response.body.planteles[i]))

\* a group has more answered cells than rows, another has fewer
C15_Witness ==
    /\ CompareOk
    /\ \E i, j \in DOMAIN response.body.planteles :
          /\ response.body.likert_answers[i] > response.body.respondents[i]
          /\ response.body.likert_answers[j] < response.body.respondents[j]
          /\ response.body.likert_answers[j] > 0

\* the cells of LikertCells(name) that hold label
LabelCells(name, label) ==
    {c \in LikertCells(name) : val(_df).rows[c[1]][c[2]] = label}

\* C16: for every group of the compare payload, pct_by_label[label] is the
\* number of the group's Likert cells equal to the label over likert_answers,
\* times 100, rounded to one decimal (in tenths: the integer nearest to
\* 1000 * count / likert_answers) when likert_answers > 0, and 0 for all five
\* labels when likert_answers = 0.
C16_PctByLabel ==
    CompareOk =>
        /\ DOMAIN response.body.pct_by_label =
              {Muy_satisfecho, Satisfecho, Neutral, Insatisfecho, Muy_insatisfecho}
        /\ \A i \in DOMAIN response.body.planteles :
              \A l \in DOMAIN response.body.pct_by_label :
                  LET answers == response.body.likert_answers[i]
                      pct == response.body.pct_by_label[l][i]
                      count == Cardinality(LabelCells(response.body.planteles[i], l))
                      diff == pct * answers - 1000 * count
                  IN  IF answers > 0
                      THEN 2 * diff <= answers /\ 0 - 2 * diff <= answers
                      ELSE pct = 0

\* a group with three answers in more rows than answers: one label has 33.3,
\* another 66.7; and a group without answers
C16_Witness ==
    /\ CompareOk
    /\ \E i, j \in DOMAIN response.body.planteles :
          /\ response.body.likert_answers[i] = 3
          /\ response.body.respondents[i] # 3
          /\ response.body.pct_by_label[Insatisfecho][i] = 667
          /\ response.body.pct_by_label[Neutral][i] = 333
          /\ response.body.likert_answers[j] = 0

\* C17: for every group of the compare payload, negative_pct is the sum of the
\* rounded percentages of Insatisfecho and Muy insatisfecho and positive_pct
\* the sum of the rounded percentages of Muy satisfecho and Satisfecho (sums of
\* tenths, so rounding the sum to one decimal changes nothing): three equal
\* thirds give positive_pct 66.6, not 66.7.
C17_SumsOfRoundedPct ==
    CompareOk =>
        \A i \in DOMAIN response.body.planteles :
            /\ response.body.negative_pct[i] =
                  response.body.pct_by_label[Insatisfecho][i]
                  + response.body.pct_by_label[Muy_insatisfecho][i]
            /\ response.body.positive_pct[i] =
                  response.body.pct_by_label[Muy_satisfecho][i]
                  + response.body.pct_by_label[Satisfecho][i]

\* one answer each of Muy satisfecho, Satisfecho and Neutral: 66.6
C17_Witness ==
    /\ CompareOk
    /\ \E i \in DOMAIN response.body.planteles :
          /\ response.body.likert_answers[i] = 3
          /\ response.body.pct_by_label[Muy_satisfecho][i] = 333
          /\ response.body.pct_by_label[Satisfecho][i] = 333
          /\ response.body.pct_by_label[Neutral][i] = 333
          /\ response.body.positive_pct[i] = 666
          /\ response.body.negative_pct[i] = 0

\* C18: for every group of the compare payload, negative_pct + positive_pct +
\* pct[Neutral] is 0 exactly when likert_answers = 0, and with likert_answers
\* > 0 it is at most 0.3 away from 100.
C18_PctTotal ==
    CompareOk =>
        \A i \in DOMAIN response.body.planteles :
            LET total == response.body.negative_pct[i] + response.body.positive_pct[i]
                         + response.body.pct_by_label[Neutral][i]
            IN  /\ (total = 0) <=> (response.body.likert_answers[i] = 0)
                /\ response.body.likert_answers[i] > 0 =>
                      (total - 1000 <= 3 /\ 1000 - total <= 3)

\* a group with answers whose three parts sum to 99.9
C18_Witness ==
    /\ CompareOk
    /\ \E i \in DOMAIN response.body.planteles :
          /\ response.body.likert_answers[i] > 0
          /\ response.body.negative_pct[i] + response.body.positive_pct[i]
             + response.body.pct_by_label[Neutral][i] = 999

\* the arrays of a compare payload, one entry per group each
PayloadArrays(P) ==
    <<P.planteles, P.respondents, P.likert_answers, P.negative_pct, P.positive_pct,
      P.foco_red>>
    \o [j \in 1..5 |-> P.pct_by_label[LabelsOf("likert5")[j]]]

\* C19: with no group every array of the compare payload is empty; with
\* groups but no Likert5 column, planteles and respondents are populated for
\* every group while likert_answers, every percentage, negative_pct and
\* positive_pct are 0 and foco_red is false for every group; in both cases
\* all arrays have the same length.
C19_DegenerateCompare ==
    CompareOk =>
        LET P == response.body
            names == val(_plantel_names)
        IN  /\ names = <<>> =>
                  /\ \A a \in DOMAIN PayloadArrays(P) : PayloadArrays(P)[a] = <<>>
                  /\ Cardinality(DOMAIN P.pct_by_label) = 5
            /\ (names # <<>> /\ val(_likert5_cols) = <<>>) =>
                  /\ \A a \in DOMAIN PayloadArrays(P) :
                        Len(PayloadArrays(P)[a]) = Len(names)
                  /\ Cardinality(DOMAIN P.pct_by_label) = 5
                  /\ range(P.planteles) = range(names)
                  /\ \A i \in DOMAIN P.planteles :
                        /\ P.respondents[i] = Cardinality(RowsOfGroup(P.planteles[i]))
                        /\ P.respondents[i] > 0
                        /\ P.likert_answers[i] = 0
                        /\ \A l \in DOMAIN P.pct_by_label : P.pct_by_label[l][i] = 0
                        /\ P.negative_pct[i] = 0
                        /\ P.positive_pct[i] = 0
                        /\ P.foco_red[i] = FALSE

\* two groups of different sizes and a YesNo column, but no Likert5 column
C19_Witness ==
    /\ CompareOk
    /\ val(_likert5_cols) = <<>>
    /\ val(_yesno_cols) # <<>>
    /\ Len(response.body.planteles) = 2
    /\ response.body.respondents[1] # response.body.respondents[2]

\* the value every global the handlers read has after a load of table tb
LoadOf ==
    [tb \in ThreadTables |->
        LET l == load_data(tb)
        IN  [_df |-> Some(l.df),
             _likert5_cols |-> Some(l.likert5_cols),
             _yesno_cols |-> Some(l.yesno_cols),
             _all_question_cols |-> Some(l.likert5_cols \o l.yesno_cols),
             _plantel_names |-> Some(sorted(dropna_unique(l.df, plantel)))]]

\* the handler of thread t has come back from ensure_loaded without error
\* and has read some globals
HasRead(t) ==
    threads[t].req = "data" /\ ~threads[t].raised /\ threads[t].n_read > 0

\* C20: under any interleaving of the handlers with a refresh, the group
\* list, the table, the question order and the Likert5 and YesNo lists that
\* one handler reads after its ensure_loaded call all come from one and the
\* same load: never from two loads, never from a cache being cleared.
C20_ReadsFromOneLoad ==
    \A t \in Threads :
        HasRead(t) =>
            \E tb \in ThreadTables :
                \A j \in 1..threads[t].n_read :
                    threads[t].view[ReadOrder[j]] = LoadOf[tb][ReadOrder[j]]

\* the last exchange came from a route that aggregates
Aggregating == response.route \in {"data", "data_all", "data_legacy", "likert_compare"}

\* the legacy route aggregated the rows of a name that no row has
EmptySubset ==
    /\ response.route = "data_legacy"
    /\ RowsOfGroup(plantel_clean(response.id)) = {}

\* C21: compute_results and compute_likert_compare never raise (with a loaded
\* snapshot no aggregating route answers 500), and their results are empty or
\* zero where there is nothing to count: no entry and no group for a table
\* without rows; total 0, every count 0 and every pct 0 for an empty row
\* subset; every percentage 0 for a group all of whose Likert cells are null;
\* pct 0 wherever a total is 0.
C21_NoRaiseZeroResults ==
    (Aggregating /\ Loaded) =>
        /\ response.status # 500
        /\ (response.status = 200 /\ val(_df).rows = <<>>) =>
              IF response.route = "likert_compare"
              THEN \A a \in DOMAIN PayloadArrays(response.body) :
                      PayloadArrays(response.body)[a] = <<>>
              ELSE response.body = <<>>
        /\ (response.status = 200 /\ response.route # "likert_compare") =>
              \A q \in DOMAIN response.body :
                  /\ EmptySubset => response.body[q].total = 0
                  /\ response.body[q].total = 0 =>
                        \A j \in DOMAIN response.body[q].data :
                            /\ response.body[q].data[j].count = 0
                            /\ response.body[q].data[j].pct = 0
        /\ CompareOk =>
              \A i \in DOMAIN response.body.planteles :
                  LikertCells(response.body.planteles[i]) = {} =>
                      /\ response.body.likert_answers[i] = 0
                      /\ \A l \in DOMAIN response.body.pct_by_label :
                            response.body.pct_by_label[l][i] = 0
                      /\ response.body.negative_pct[i] = 0
                      /\ response.body.positive_pct[i] = 0

\* the legacy route returned the entries of an empty row subset: a Likert5
\* and a YesNo question, each with total 0
C21_Witness ==
    /\ EmptySubset
    /\ response.status = 200
    /\ Len(val(_df).rows) > 0
    /\ Len(response.body) = 2
    /\ \A q \in DOMAIN response.body : response.body[q].total = 0

\* the id parameters of RawIds that are integers, and their values
IntegerIds == {<<"-","1">>, <<"0">>, <<"1">>, <<"2">>}
IdValue(raw_id) ==
    CASE raw_id = <<"-","1">> -> 0 - 1
      [] raw_id = <<"0">> -> 0
      [] raw_id = <<"1">> -> 1
      [] raw_id = <<"2">> -> 2

\* the number of groups of the cached group list
GroupCount == IF _plantel_names = <<>> THEN 0 ELSE Len(val(_plantel_names))

\* GET /api/data answered a lookup failure with its status and no data, and
\* aggregated only for an id of the group list
LookupStatus ==
    /\ response.id \notin IntegerIds => response.status = 400
    /\ (response.id \in IntegerIds /\ IdValue(response.id) \notin 0..(GroupCount - 1)) =>
          response.status = 404
    /\ response.status # 200 => response.body = <<>>
    /\ response.status = 200 =>
          (response.id \in IntegerIds /\ IdValue(response.id) \in 0..(GroupCount - 1))

\* C22 as stated: GET /api/data gives 400 for a missing or non-integer id and
\* 404 for an integer id outside 0..n-1 or with an empty group list, never
\* aggregated data; only an id in 0..n-1 is aggregated.
C22_LookupStatus == response.route = "data" => LookupStatus

\* C22: when ensure_loaded returns, GET /api/data gives 400 for a missing or
\* non-integer id and 404 for an integer id outside 0..n-1 or with an empty
\* group list, never aggregated data, and only an id in 0..n-1 is aggregated;
\* when ensure_loaded raises, it gives 500 and no data whatever the id.
C22_LookupStatusAfterLoad ==
    response.route = "data" =>
        IF Loaded THEN LookupStatus
        ELSE response.status = 500 /\ response.body = <<>>

\* id=-1 with two groups or more is answered 404
C22_Witness ==
    /\ response.route = "data"
    /\ response.id = <<"-","1">>
    /\ GroupCount >= 2
    /\ response.status = 404

\* the snapshot the claim names, the other globals being cleared: the table,
\* the Likert5 columns and the group list
SnapshotOnly ==
    [clear_cache EXCEPT !._df = _df, !._likert5_cols = _likert5_cols,
                        !._plantel_names = _plantel_names]

LabelCounts(entries) ==
    [q \in DOMAIN entries |->
        [question |-> entries[q].question,
         counts |-> [j \in DOMAIN entries[q].data |->
                        <<entries[q].data[j].label, entries[q].data[j].count>>]]]

\* the cells of column col of the table behind the source, in the rows rows,
\* whose lower-cased trimmed text is one of texts
SourceCells(rows, col, texts) ==
    Cardinality({r \in rows :
        /\ source.rows[r][col_index(source, col)] # NaN
        /\ lower(strip(source.rows[r][col_index(source, col)])) \in texts})

\* C24: data.json holds, for the whole table and for every group, the label
\* counts that classify_and_prepare followed by compute_results gives on the
\* same table, and the groups are the same; every YesNo cell reading
\* 's\u00ed' or 'si' is counted under 'S\u00ed' and every 'no' under 'No'.
C24_SameCountsAsApp ==
    (response.route = "build_data" /\ response.status = 0) =>
        LET g == loaded_globals(source)
            out == response.body
        IN  /\ LabelCounts(out.all.questions) = LabelCounts(compute_results(g, val(g._df)))
            /\ out.plantel_list = val(g._plantel_names)
            /\ \A i \in DOMAIN out.planteles :
                  LabelCounts(out.planteles[i].questions) =
                      LabelCounts(compute_results(
                          g, rows_of_plantel(val(g._df), out.plantel_list[i])))
            /\ \A q \in DOMAIN out.all.questions :
                  out.all.questions[q].type = "yesno" =>
                      /\ out.all.questions[q].data[1].count =
                            SourceCells(DOMAIN source.rows, out.all.questions[q].question,
                                        {<<"s","i_acute">>, <<"s","i">>})
                      /\ out.all.questions[q].data[2].count =
                            SourceCells(DOMAIN source.rows, out.all.questions[q].question,
                                        {<<"n","o">>})

\* the seven cached globals
Cache ==
    <<_df, _likert5_cols, _yesno_cols, _all_question_cols, _plantel_names,
      _loaded_at_epoch, _loaded_source>>

\* a snapshot is cached, and it is younger than the lifetime or never expires
Cached == _df # <<>> /\ _loaded_at_epoch # <<>>
Fresh ==
    /\ Cached
    /\ \/ DATA_CACHE_TTL_SECONDS <= 0
       \/ now - val(_loaded_at_epoch) < DATA_CACHE_TTL_SECONDS

\* the step is a call of ensure_loaded(force) on its own; a call through
\* a route other than POST /api/reload
EnsureLoadedStep(force) ==
    /\ response'.route = "ensure_loaded"
    /\ response'.body.force = force
    /\ response'.body.at = now
    /\ now' = now
    /\ source' = source
RouteStep ==
    /\ response'.route \in {"planteles", "health", "data", "data_all", "likert_compare"}
    /\ now' = now
    /\ source' = source

\* C25: ensure_loaded(force=False) calls load_data no time and leaves the
\* cache as it is when a snapshot is cached and the lifetime is <= 0 or the
\* snapshot is younger than the lifetime; ensure_loaded calls load_data once
\* when nothing is cached, when force is true, or when the lifetime is > 0
\* and the snapshot is at least that old; with a lifetime <= 0 no call of
\* ensure_loaded(force=False), alone or through a route, changes a cached
\* snapshot.
C25_LoadsWhenStale ==
    [][/\ (EnsureLoadedStep(FALSE) /\ Fresh) =>
             (response'.body.loads = 0 /\ ~response'.body.raised /\ Cache' = Cache)
       /\ (EnsureLoadedStep(FALSE) /\ ~Fresh) => response'.body.loads = 1
       /\ EnsureLoadedStep(TRUE) => response'.body.loads = 1
       /\ ((\E force \in BOOLEAN : EnsureLoadedStep(force))
           /\ response'.body.loads = 1 /\ ~response'.body.raised) =>
             /\ _loaded_at_epoch' = Some(now)
             /\ _df' = Some(load_data(source).df)
       /\ ((EnsureLoadedStep(FALSE) \/ RouteStep)
           /\ Cached /\ DATA_CACHE_TTL_SECONDS <= 0) => Cache' = Cache
      ]_vars

\* ensure_loaded(force=False) has just returned without a load on a snapshot
\* half a lifetime old, taken from a table the source no longer holds
C25_Witness ==
    /\ response.route = "ensure_loaded"
    /\ ~response.body.force
    /\ response.body.at = now
    /\ response.body.loads = 0
    /\ DATA_CACHE_TTL_SECONDS = DEFAULT_CACHE_TTL
    /\ Cached
    /\ now - val(_loaded_at_epoch) = DEFAULT_CACHE_TTL \div 2
    /\ source # Unavailable
    /\ _df # Some(load_data(source).df)

\* no global is set; every global is set
AllNone ==
    /\ Cache = <<<<>>, <<>>, <<>>, <<>>, <<>>, <<>>, "unknown">>
AllSet ==
    /\ \A i \in 1..6 : Cache[i] # <<>>
    /\ _loaded_source \in {"excel", "endpoint"}

\* the sorted distinct group keys of the cached table
RECURSIVE SortedKeys(_)
SortedKeys(keys) ==
    IF keys = {} THEN <<>>
    ELSE LET least == CHOOSE k \in keys : \A o \in keys \ {k} : str_lt(k, o)
         IN  <<least>> \o SortedKeys(keys \ {least})

\* C26: after any series of ensure_loaded, clear_cache and POST /api/reload
\* calls made one after the other, whether their loads return or raise, the
\* cache is all-or-nothing: either the six Optional globals are None and
\* _loaded_source is 'unknown', or all are set from one load of one table,
\* with _all_question_cols = _likert5_cols + _yesno_cols and _plantel_names
\* the sorted distinct group keys of _df.
C26_AllOrNothing ==
    \/ AllNone
    \/ /\ AllSet
       /\ val(_all_question_cols) = val(_likert5_cols) \o val(_yesno_cols)
       /\ val(_plantel_names) =
             SortedKeys({val(_df).rows[r][col_index(val(_df), plantel)] :
                            r \in DOMAIN val(_df).rows})
       /\ \E t \in ThreadTables :
             /\ _df = Some(load_data(t).df)
             /\ _likert5_cols = Some(load_data(t).likert5_cols)
             /\ _yesno_cols = Some(load_data(t).yesno_cols)
       /\ val(_loaded_at_epoch) <= now

\* a reload has just failed on a source lost later than the start: nothing
\* is cached
C26_Witness ==
    /\ response.route = "reload"
    /\ response.status = 500
    /\ AllNone
    /\ now > 0

IdText(i) == <<<<"0", "1", "2", "3", "4", "5", "6", "7", "8", "9">>[i + 1]>>

\* the group key cached for row r
CachedKey(r) == val(_df).rows[r][col_index(val(_df), plantel)]

\* C28: in a loaded snapshot the group key of every row is a text, never
\* null, and names exactly one group of the group list; the respondents of
\* the groups of the compare payload sum to the number of rows; and for every
\* question and label the count of GET /api/data_all is the sum of the counts
\* of GET /api/data over all ids.
C28_RowsPartitioned ==
    Loaded =>
        /\ \A r \in DOMAIN val(_df).rows :
              /\ CachedKey(r) # NaN
              /\ Cardinality({i \in DOMAIN val(_plantel_names) :
                                 val(_plantel_names)[i] = CachedKey(r)}) = 1
        /\ CompareOk => sum_seq(response.body.respondents) = Len(val(_df).rows)
        /\ (response.route = "data_all" /\ response.status = 200) =>
              \A q \in DOMAIN response.body :
                  \A j \in DOMAIN response.body[q].data :
                      response.body[q].data[j].count =
                          sum_seq([i \in DOMAIN val(_plantel_names) |->
                                      data_by_id(globals, IdText(i - 1)).body[q].data[j].count])

\* a compare payload of two groups, one of them keyed by the text of a
\* missing level, over a table of two rows
C28_Witness ==
    /\ CompareOk
    /\ Len(val(_df).rows) = 2
    /\ Len(response.body.planteles) = 2
    /\ \E i \in DOMAIN response.body.planteles :
          SubSeq(response.body.planteles[i], 1, 3) = <<"n","a","n">>

\* the non-null cells of column col in the rows the last data exchange
\* aggregated
AnsweredCells(col) == {r \in DOMAIN Subset.rows : SubsetCells(col)[r] # NaN}

\* C29: in a loaded snapshot every non-null cell of a Likert5 column is one of
\* the five labels and every non-null cell of a YesNo column is 'S\u00ed' or
\* 'No', and no column is in both lists; so the label counts of an entry sum
\* to the number of non-null cells of its column in the rows aggregated, and
\* likert_answers is the number of non-null cells of the Likert5 columns in
\* the rows of the group.
C29_CanonicalCells ==
    Loaded =>
        /\ \A k \in DOMAIN val(_df).columns :
              \A r \in DOMAIN val(_df).rows :
                  LET x == val(_df).rows[r][k]
                      kind == KindOf(val(_df).columns[k])
                  IN  (kind # "none" /\ x # NaN) => x \in range(LabelsOf(kind))
        /\ range(val(_likert5_cols)) \cap range(val(_yesno_cols)) = {}
        /\ DataOk =>
              \A q \in DOMAIN response.body :
                  CountSum(response.body[q]) =
                      Cardinality(AnsweredCells(response.body[q].question))
        /\ CompareOk =>
              \A i \in DOMAIN response.body.planteles :
                  response.body.likert_answers[i] =
                      Cardinality(LikertCells(response.body.planteles[i]))

\* the entries of a table whose Likert5 and YesNo cells were given in other
\* spellings, with a missing cell: the counts sum to less than total
C29_Witness ==
    /\ DataOk
    /\ Len(response.body) = 2
    /\ \E r \in DOMAIN source.rows : \E k \in DOMAIN source.columns :
          /\ RawCell(r, k) # NaN
          /\ KindOf(source.columns[k]) = "likert5"
          /\ val(_df).rows[r][k] # RawCell(r, k)
    /\ \E r \in DOMAIN source.rows : \E k \in DOMAIN source.columns :
          /\ RawCell(r, k) # NaN
          /\ KindOf(source.columns[k]) = "yesno"
          /\ val(_df).rows[r][k] # RawCell(r, k)
    /\ \E q \in DOMAIN response.body :
          CountSum(response.body[q]) < response.body[q].total

====
